---- MODULE Spec2Model ----
(***************************************************************************)
(* Recording pipeline of the meetingstorage repository.                    *)
(*                                                                         *)
(*   Spec          one RecordingManager (src/RecordingManager.js, the      *)
(*                 "high performance" class at lines 749-1497) driven by   *)
(*                 the socket handlers of src/server.js.  Every await of   *)
(*                 the class is a suspension point: a handler is split     *)
(*                 into one action per run-to-completion segment.          *)
(*   SpecIngest    the same manager with one session and one stop, and     *)
(*                 more frames in flight: write completions interleaved    *)
(*                 with the stop procedure's scan of the manifest.         *)
(*   SpecProducer  the capture queue and send loop of the recorder         *)
(*                 component (src/unnamed/part_000).                       *)
(*   SpecEncode    the pure computations of encodeFramesToVideo applied    *)
(*                 to frame lists drawn from bounded sets.                 *)
(*   SpecMux       the audio input of encodeFramesToVideo for frame and    *)
(*                 audio timestamps drawn from bounded sets.               *)
(*   SpecRequests  one recording session with every request of            *)
(*                 src/server.js: frames, bulk frames, audio chunks,       *)
(*                 status queries, and what each handler acknowledges.     *)
(*   SpecLive      the send loop of the recorder under weak fairness of    *)
(*                 its timer and of the settling of a batch.               *)
(*   SpecQueue     one ProcessingQueue (src/ProcessingQueue.js, the class  *)
(*                 at lines 78-163).                                       *)
(*   SpecDrain     the same queue with a waitForCompletion call polling    *)
(*                 it, under weak fairness of the call's 1 s timer.        *)
(*   SpecPoll      the recorder's stop, its 2 minute timer and its status  *)
(*                 polling, against the server's stop handler.             *)
(*   SpecRooms     the registry of src/server.js with two rooms, each      *)
(*                 with a manager and a session of its own.                *)
(*   SpecRegistry  the registry with lookups of two rooms, the clock and   *)
(*                 the periodic sweep; one session per manager.            *)
(*   SpecSweep     the sweep and the clock with the sessions and the       *)
(*                 overlapping stop calls of Spec in one room.             *)
(*   SpecCapture   the capture loop of the recorder with its toBlob        *)
(*                 callbacks, the batches of the send loop, pause,         *)
(*                 resume, stop and a restart; weak fairness of the        *)
(*                 animation frame callback and of toBlob.                 *)
(*   SpecSequence  two sessions of one manager with single and bulk        *)
(*                 frames: the sequence numbers handed out.                *)
(*   SpecAux       one stop with its encoder call, the audio merge and     *)
(*                 the thumbnail step succeeding or failing.               *)
(*   SpecQueueLive SpecQueue under weak fairness of the delay timer and    *)
(*                 of the settling of every job.                           *)
(*   SpecStopping  one manager with starts, frames, stops and cleanups     *)
(*                 arriving during a stop, under weak fairness of every    *)
(*                 continuation of a stop.                                 *)
(***************************************************************************)
EXTENDS Integers, Sequences, FiniteSets, TLC

\* JavaScript null for numeric / reference fields.
null == -1

\* ---------------------------------------------------------------- bounds
\* Spec: the lifecycle of the recordings of one room.
MaxRecordings == 2     \* recordings ever created by one manager
MaxFrameCounter == 1   \* cap on this.frameCounter
MaxWrites == 1         \* frame writes suspended at fs.writeFile at a time
MaxStops == 2          \* stopRecording calls in flight at a time
MaxStarts == 1         \* startUIRecording calls suspended at fs.ensureDir
MaxTime == 1           \* last value of the wall clock
\* SpecIngest: one recording, one stop at a time, more frames.
IngestFrameCounter == 3
IngestWrites == 2

\* SpecProducer.
MaxCaptured == 331     \* frames captured by the recorder
MaxTimers == 1         \* pending 5 ms reschedules of the send loop

StopIds == 1..MaxStops

\* Recorder constants (src/unnamed/part_000).
MAX_QUEUE_SIZE == 300
DropBatch == 30
SendBatch == 10

\* Error messages thrown by the manager.
ErrNoFFmpeg == "FFmpeg is not available"
ErrAlreadyActive == "Room already has an active recording"
ErrCannotPause == "Cannot pause - no active recording or not in recording state"
ErrCannotResume == "Cannot resume - no active recording or not paused"
ErrNoActive == "No active recording"
ErrAlreadyStopping == "Recording is already being stopped"
ErrNoFramesWritten == "No frames were written"
ErrNoValidFrames == "No valid frame files found"
ErrEncoder == "ffmpeg error"
ErrCannotAddFrame == "Cannot add frame - recording status is not recording or stopping"
ErrFrameRequired == "roomId, recordingId and frameBlob are required"
ErrBadPayload == "The first argument must be of type string or an instance of Buffer"
ErrWrite == "write failed"
ErrAudioRequired == "roomId, recordingId and audioData are required"
ErrBulkRequired == "roomId, recordingId and frames array are required"
ErrNoRecording == "No recording found"
ErrInvalidBuffer == "Invalid frame buffer format"
ErrRoomRequired == "roomId is required"
ErrNoStatus == "No active recording in this room"
ErrConsol == "consol is not defined"

VARIABLES
  isFFmpegAvailable,  \* this.isFFmpegAvailable
  recordings,         \* this.recordings: Map in insertion order, id = position
  activeRecording,    \* this.activeRecording: an id of recordings, or null
  frameCounter,       \* this.frameCounter
  starts,             \* number of startUIRecording calls awaiting fs.ensureDir
  writes,             \* processFrame calls awaiting fs.writeFile
  stops,              \* stopRecording calls in flight, by slot
  disk,               \* frame files: <<recording, frameNumber>> -> size
  now,                \* wall clock read by new Date()
  result              \* what the call finishing in the last step returned or threw

\* The recorder component (src/unnamed/part_000).
VARIABLES
  frameQueue,         \* frameQueueRef.current: frames by client frame number
  droppedFrames,      \* stats.droppedFrames
  frameNumber,        \* frameNumberRef.current
  isProcessing,       \* isProcessingRef.current
  connected,          \* socketRef.current?.connected
  sending,            \* framesToSend of the batch in flight
  timers              \* pending setTimeout(processFrameQueue, 5) callbacks

\* One call of encodeFramesToVideo.
VARIABLES
  encFps,             \* recording.options.fps
  encFrames,          \* frameInfos
  encRate,            \* encodeFPS, null before the call
  encLines,           \* lines of all_frames.txt, <<>> before the call
  encWithAudio,       \* the withAudio argument
  encAudio,           \* recording.audioFiles, in arrival order
  encMerged,          \* the audio merge succeeds and leaves merged-audio.webm
  encMux              \* the audio input of the final ffmpeg command

mvars == <<isFFmpegAvailable, recordings, activeRecording, frameCounter,
           starts, writes, stops, disk, now, result>>
pvars == <<frameQueue, droppedFrames, frameNumber, isProcessing, connected,
           sending, timers>>
\* One ProcessingQueue (src/ProcessingQueue.js, the class at lines 78-163).
VARIABLES
  queue,              \* this.queue: the entries waiting, by job id and priority
  queueBusy,          \* this.isProcessing
  activeJobs,         \* this.activeJobs
  maxConcurrent,      \* this.maxConcurrent
  delaying,           \* process() is suspended at its delay timer (line 115)
  running,            \* ids of the jobs started whose finally callback is due
  nextJob,            \* id of the next job that add() is given
  lastJob,            \* how the job that finished in the last step ended
  started             \* the entries process() has started, in that order

qvars == <<queue, queueBusy, activeJobs, maxConcurrent, delaying, running,
           nextJob, lastJob, started>>
\* One waitForCompletion call on the queue (lines 137-149).
VARIABLES
  waiting,            \* position of the call: "idle", "polling", "returned"
  attempts            \* its local variable attempts

wvars == <<waiting, attempts>>

\* The stop of the recorder component (src/unnamed/part_000, lines 858-1000).
VARIABLES
  stopPhase,          \* "recording", "sent" (stop request on its way),
                      \* "awaited" (the handler runs), "acknowledged"
  processingTimeout,  \* the 2 minute timer of line 866: "none", "pending",
                      \* "fired"
  statusPoll,         \* statusPollRef.current holds an interval
  fetching,           \* status requests in flight
  polls,              \* status requests sent so far
  downloadUrl,        \* the downloadUrl state, or null
  processingFailed    \* the processingFailed state

cvars == <<stopPhase, processingTimeout, statusPoll, fetching, polls,
           downloadUrl, processingFailed>>
\* The registry of src/server.js (lines 39, 64-99).  The fields of one
\* manager at a time are the variables of mvars: the manager that the last
\* getRoomManager call returned.
VARIABLES
  roomManagers,       \* roomManagers: room id -> the manager object, or null
  manager,            \* the object whose fields mvars holds, or null
  room,               \* the room id of the message being handled, or null
  parked,             \* the fields of the other registered managers, by room
  created             \* number of managers constructed so far

rvars == <<roomManagers, manager, room, parked, created>>
\* The capture loop of the recorder component and the frames its send loop
\* has taken from the queue (src/unnamed/part_000, lines 421-587).
VARIABLES
  isRecordingRef,     \* isRecordingRef.current
  isPausedRef,        \* isPausedRef.current
  recordingIdRef,     \* recordingIdRef.current, or null
  animationFrame,     \* a requestAnimationFrame(captureFrame) callback is due
  blobs,              \* canvas.toBlob callbacks that are due
  batches,            \* the batches in flight: recording id and the frames
                      \* whose arrayBuffer() conversion is pending
  emitted,            \* the ui-frame messages emitted, in that order
  draining            \* stopRecording is in its loop of lines 909-912

lvars == <<isRecordingRef, isPausedRef, recordingIdRef, animationFrame, blobs,
           batches, emitted, draining>>
evars == <<encFps, encFrames, encRate, encLines,
           encWithAudio, encAudio, encMerged, encMux>>
vars == <<mvars, pvars, evars, qvars, wvars, cvars, rvars, lvars>>

\* ------------------------------------------------------------- helpers
NonTerminal == {"recording", "paused", "stopping"}

\* The recording object built by startUIRecording (lines 802-842), with
\* status already 'recording' (line 848).
NewRecording ==
  [status |-> "recording", pausedAt |-> null, resumedAt |-> null,
   completedAt |-> null, fileUrl |-> null, thumbnailUrl |-> null,
   error |-> "", frameFiles |-> <<>>, audioFiles |-> <<>>,
   framesReceived |-> 0, framesWritten |-> 0, audioChunksReceived |-> 0,
   droppedFrames |-> 0, errors |-> 0]

\* /recordings/rooms/<room>/completed/<filename> of recording r.
FileUrl(r) == r
\* /recordings/rooms/<room>/thumbnails/<id>.jpg of recording r.
ThumbnailUrl(r) == r

\* The outcome of a handler's call into the manager: the call returned
\* recording r, or threw msg (or the handler threw msg before the call).
Returned(op, r) ==
  [op |-> op, ok |-> TRUE, rec |-> r,
   fileUrl |-> IF r = null THEN null ELSE recordings[r].fileUrl,
   thumbnailUrl |-> IF r = null THEN null ELSE recordings[r].thumbnailUrl,
   error |-> ""]
Thrown(op, msg) ==
  [op |-> op, ok |-> FALSE, rec |-> null, fileUrl |-> null,
   thumbnailUrl |-> null, error |-> msg]

\* Lines 883-894: addUIFrame returned {success: false, error} for recording r.
FrameFailed(r, msg) ==
  [op |-> "frame", ok |-> TRUE, rec |-> r, fileUrl |-> null,
   thumbnailUrl |-> null, error |-> msg]

\* No call returned in this step.
NoResult ==
  [op |-> "none", ok |-> TRUE, rec |-> null, fileUrl |-> null,
   thumbnailUrl |-> null, error |-> ""]

IdleStop ==
  [pc |-> "idle", op |-> "stop", forRec |-> null, arr |-> null, i |-> 0,
   valid |-> <<>>, encRec |-> null, thumbRec |-> null]

FreeStop == {s \in StopIds : stops[s].pc = "idle"}

\* Insert x into a list sorted by frameNumber, after its equals (stable).
RECURSIVE InsertByFrameNumber(_, _)
InsertByFrameNumber(x, s) ==
  IF s = <<>> THEN <<x>>
  ELSE IF x.frameNumber < Head(s).frameNumber THEN <<x>> \o s
  ELSE <<Head(s)>> \o InsertByFrameNumber(x, Tail(s))

\* frameFiles.sort((a, b) => a.frameNumber - b.frameNumber)
RECURSIVE SortByFrameNumber(_)
SortByFrameNumber(s) ==
  IF s = <<>> THEN <<>>
  ELSE InsertByFrameNumber(s[Len(s)], SortByFrameNumber(SubSeq(s, 1, Len(s) - 1)))

\* fs.pathExists(path) && (await fs.stat(path)).size > 0
ValidFile(r, f) ==
  /\ <<r, f.frameNumber>> \in DOMAIN disk
  /\ disk[<<r, f.frameNumber>>] > 0

\* readdir(framesDir).filter(f => f.endsWith('.webp'))
WebpFiles(r) == {p \in DOMAIN disk : p[1] = r}

\* ---------------------------------------------------------------- Init
\* A recorder that is connected and recording, with nothing captured yet.
ProducerIdle ==
  /\ frameQueue = <<>>
  /\ droppedFrames = 0
  /\ frameNumber = 0
  /\ isProcessing = FALSE
  /\ connected = TRUE
  /\ sending = <<>>
  /\ timers = 0
  /\ stopPhase = "recording"
  /\ processingTimeout = "none"
  /\ statusPoll = FALSE
  /\ fetching = 0
  /\ polls = 0
  /\ downloadUrl = null
  /\ processingFailed = FALSE
  /\ isRecordingRef = TRUE
  /\ isPausedRef = FALSE
  /\ recordingIdRef = 1
  /\ animationFrame = TRUE
  /\ blobs = 0
  /\ batches = <<>>
  /\ emitted = <<>>
  /\ draining = FALSE

\* Lines 1299-1301: a final command without an audio input.
NoAudioInput == [audio |-> FALSE, itsoffset |-> null, ss |-> null]

\* No encodeFramesToVideo call.
EncodeIdle ==
  /\ encFps = 30
  /\ encFrames = <<>>
  /\ encRate = null
  /\ encLines = <<>>
  /\ encWithAudio = TRUE
  /\ encAudio = <<>>
  /\ encMerged = TRUE
  /\ encMux = NoAudioInput

MaxRooms == 2
RoomIds == 1..MaxRooms

\* Lines 750-768: the fields of a manager as its constructor leaves them.
ManagerFields ==
  [recordings |-> <<>>, activeRecording |-> null, frameCounter |-> 0,
   starts |-> 0, writes |-> {}, stops |-> [s \in StopIds |-> IdleStop],
   disk |-> <<>>]

\* Lines 39 and 750-768: a server with an empty registry; mvars holds the
\* fields of a manager as its constructor leaves them.
ManagerNew ==
  /\ isFFmpegAvailable \in BOOLEAN
  /\ recordings = <<>>
  /\ activeRecording = null
  /\ frameCounter = 0
  /\ starts = 0
  /\ writes = {}
  /\ stops = [s \in StopIds |-> IdleStop]
  /\ disk = <<>>
  /\ now = 0
  /\ result = NoResult
  /\ roomManagers = [r \in RoomIds |-> null]
  /\ manager = null
  /\ room = null
  /\ parked = [r \in RoomIds |-> ManagerFields]
  /\ created = 0

\* Lines 79-87: a queue constructed with options.maxConcurrent = option
\* (0 when the option is absent: the default of 3 applies).
QueueNew(option) ==
  /\ queue = <<>>
  /\ queueBusy = FALSE
  /\ activeJobs = 0
  /\ maxConcurrent = (IF option = 0 THEN 3 ELSE option)
  /\ delaying = FALSE
  /\ running = {}
  /\ nextJob = 1
  /\ lastJob = "none"
  /\ started = <<>>
  /\ waiting = "idle"
  /\ attempts = 0

Init == ManagerNew /\ ProducerIdle /\ EncodeIdle /\ QueueNew(0)

\* ------------------------------------------------------ startUIRecording
\* Start guards that do not ask for the encoder.
StartRejectedIgnoringFFmpeg ==
  IF /\ activeRecording # null
     /\ recordings[activeRecording].status \in {"recording", "paused"}
    THEN ErrAlreadyActive
  ELSE ""

\* Lines 786-795: the guards.
StartRejected ==
  IF ~isFFmpegAvailable THEN ErrNoFFmpeg
  ELSE IF /\ activeRecording # null
          /\ recordings[activeRecording].status \in {"recording", "paused"}
       THEN ErrAlreadyActive
  ELSE ""

\* Lines 786-846: guards, build the recording, suspend at fs.ensureDir.
StartUIRecording ==
  /\ IF StartRejected # ""
       THEN /\ result' = Thrown("start", StartRejected)
            /\ UNCHANGED starts
       ELSE /\ starts' = starts + 1
            /\ result' = NoResult
  /\ UNCHANGED <<isFFmpegAvailable, recordings, activeRecording, frameCounter,
                 writes, stops, disk, now>>

\* Lines 848-858: the directories exist; register the recording.
StartRegistered ==
  /\ starts > 0
  /\ starts' = starts - 1
  /\ recordings' = Append(recordings, NewRecording)
  /\ activeRecording' = Len(recordings) + 1
  /\ frameCounter' = 0
  /\ result' = [Returned("start", null) EXCEPT !.rec = Len(recordings) + 1]
  /\ UNCHANGED <<isFFmpegAvailable, writes, stops, disk, now>>

\* ------------------------------------------------ pause / resume
\* A pause guard that also lets a stopping recording through.
PauseAllowedLoose ==
  /\ activeRecording # null
  /\ recordings[activeRecording].status \in {"recording", "stopping"}

\* Line 1017.
PauseAllowed ==
  /\ activeRecording # null
  /\ recordings[activeRecording].status = "recording"

\* Lines 1016-1026.
PauseRecording ==
  /\ IF PauseAllowed
       THEN /\ recordings' = [recordings EXCEPT
                                ![activeRecording].status = "paused",
                                ![activeRecording].pausedAt = now]
            /\ result' = Returned("pause", activeRecording)
       ELSE /\ result' = Thrown("pause", ErrCannotPause)
            /\ UNCHANGED recordings
  /\ UNCHANGED <<isFFmpegAvailable, activeRecording, frameCounter, starts,
                 writes, stops, disk, now>>

\* Line 1029.
ResumeAllowed ==
  /\ activeRecording # null
  /\ recordings[activeRecording].status = "paused"

\* Lines 1028-1038.
ResumeRecording ==
  /\ IF ResumeAllowed
       THEN /\ recordings' = [recordings EXCEPT
                                ![activeRecording].status = "recording",
                                ![activeRecording].resumedAt = now]
            /\ result' = Returned("resume", activeRecording)
       ELSE /\ result' = Thrown("resume", ErrCannotResume)
            /\ UNCHANGED recordings
  /\ UNCHANGED <<isFFmpegAvailable, activeRecording, frameCounter, starts,
                 writes, stops, disk, now>>

\* ------------------------------------------------ addUIFrame / processFrame
\* Lines 862-870.
FrameAccepted ==
  /\ activeRecording # null
  /\ recordings[activeRecording].status \in {"recording", "stopping"}

\* server.js 275-292, lines 861-875 and 964-978: the ui-frame handler checks
\* the message and makes the payload a Buffer (Buffer.from throws on a
\* payload it cannot convert); addUIFrame accepts the frame, counts it,
\* takes the next frame number and suspends at fs.writeFile.  The write in
\* flight remembers the status the recording had when it was submitted.
AddUIFrame(timestamp, payload) ==
  /\ IF payload = "missing"
       THEN /\ result' = Thrown("frame", ErrFrameRequired)
            /\ UNCHANGED <<writes, frameCounter, recordings>>
     ELSE IF payload = "malformed"
       THEN /\ result' = Thrown("frame", ErrBadPayload)
            /\ UNCHANGED <<writes, frameCounter, recordings>>
     ELSE IF activeRecording = null
       THEN /\ result' = Thrown("frame", ErrNoActive)
            /\ UNCHANGED <<writes, frameCounter, recordings>>
     ELSE IF ~FrameAccepted
       THEN /\ result' = Thrown("frame", ErrCannotAddFrame)
            /\ UNCHANGED <<writes, frameCounter, recordings>>
     ELSE /\ writes' = writes \cup
                 {[kind |-> "frame", rec |-> activeRecording,
                   frameNumber |-> frameCounter, timestamp |-> timestamp,
                   during |-> recordings[activeRecording].status]}
          /\ frameCounter' = frameCounter + 1
          /\ recordings' = [recordings EXCEPT
                              ![activeRecording].framesReceived = @ + 1]
          /\ result' = NoResult
  /\ UNCHANGED <<isFFmpegAvailable, activeRecording, starts, stops, disk, now>>

\* server.js 275-292: the ui-frame handler for a message that carries
\* recordingId; the id has to be there and is not passed to addUIFrame.
UIFrameMessage(recordingId, timestamp, payload) ==
  AddUIFrame(timestamp, payload)

\* Lines 978-995 and 877-882: the write returned; append the record to the
\* manifest and count it.  size is what is found on disk afterwards: 1 an
\* intact file, 0 a partial (zero-length) write, null a file that is gone
\* again.
FrameWritten(w, size) ==
  /\ w \in writes
  /\ w.kind = "frame"
  /\ writes' = writes \ {w}
  /\ disk' = IF size = null THEN disk
              ELSE (<<w.rec, w.frameNumber>> :> size) @@ disk
  /\ recordings' = [recordings EXCEPT
         ![w.rec].frameFiles =
            Append(@, [frameNumber |-> w.frameNumber, timestamp |-> w.timestamp]),
         ![w.rec].framesWritten = @ + 1]
  /\ UNCHANGED <<isFFmpegAvailable, activeRecording, frameCounter, starts,
                 stops, now>>
  /\ result' = Returned("frame", w.rec)

\* A failed frame that also fails its recording.
FailureCountedFatal(r) ==
  [recordings EXCEPT ![r].droppedFrames = @ + 2, ![r].errors = @ + 1,
                     ![r].status = "failed"]

\* Lines 1011 and 885-886: processFrame counts a dropped frame, addUIFrame
\* counts an error and a dropped frame.
FailureCounted(r) ==
  [recordings EXCEPT ![r].droppedFrames = @ + 2, ![r].errors = @ + 1]

\* Lines 1009-1013 and 883-894: fs.writeFile threw; no record is appended,
\* the failure is counted and addUIFrame returns it.
FrameWriteFailed(w) ==
  /\ w \in writes
  /\ w.kind = "frame"
  /\ writes' = writes \ {w}
  /\ recordings' = FailureCounted(w.rec)
  /\ UNCHANGED <<isFFmpegAvailable, activeRecording, frameCounter,
                 starts, stops, disk, now>>
  /\ result' = FrameFailed(w.rec, ErrWrite)

\* ---------------------------------------------------------------- clock
Tick ==
  /\ now < MaxTime
  /\ now' = now + 1
  /\ UNCHANGED <<isFFmpegAvailable, recordings, activeRecording, frameCounter,
                 starts, writes, stops, disk>>
  /\ result' = NoResult

\* ---------------------------------------------------------- stopRecording
\* Lines 1047-1060: the recording a stop call works on.
StopTarget ==
  IF activeRecording # null THEN activeRecording
  ELSE LET recent == {r \in 1..Len(recordings) :
                        recordings[r].status \in NonTerminal}
       IN IF recent = {} THEN null
          ELSE CHOOSE r \in recent : \A q \in recent : q <= r

\* A stop that never takes the early return for a completed recording.
AlreadyCompletedNever(t) == FALSE

\* Line 1097.
AlreadyCompleted(t) == recordings[t].status = "completed"

\* A duplicate-stop test that also turns away a failed recording.
AlreadyStoppingOrFailed(t) == recordings[t].status \in {"stopping", "failed"}

\* Line 1092.
AlreadyStopping(t) == recordings[t].status = "stopping"

LowestFreeStop == CHOOSE s \in FreeStop : \A t \in FreeStop : s <= t

\* Line 1102 and the suspension at the 2 s grace timer (line 1105).
EnterStopping(op, t) ==
  /\ FreeStop # {}
  /\ recordings' = [recordings EXCEPT ![t].status = "stopping"]
  /\ activeRecording' = t
  /\ stops' = [stops EXCEPT ![LowestFreeStop] =
                 [IdleStop EXCEPT !.pc = "grace", !.op = op, !.forRec = t]]
  /\ result' = NoResult

\* Lines 1040-1105: the synchronous part of stopRecording.
StopRecording ==
  /\ LET t == StopTarget IN
       IF t = null
         THEN /\ result' =
                   IF /\ Len(recordings) > 0
                      /\ recordings[Len(recordings)].status
                           \in {"completed", "failed"}
                     THEN Returned("stop", Len(recordings))
                     ELSE Thrown("stop", ErrNoActive)
              /\ UNCHANGED <<recordings, activeRecording, stops>>
       ELSE IF AlreadyStopping(t)
         THEN /\ result' = Thrown("stop", ErrAlreadyStopping)
              /\ activeRecording' = t
              /\ UNCHANGED <<recordings, stops>>
       ELSE IF AlreadyCompleted(t)
         THEN /\ result' = Returned("stop", t)
              /\ activeRecording' = t
              /\ UNCHANGED <<recordings, stops>>
       ELSE EnterStopping("stop", t)
  /\ UNCHANGED <<isFFmpegAvailable, frameCounter, starts, writes, disk, now>>

\* Lines 1482-1496: cleanup() stops a recording that is recording or paused
\* and swallows the outcome; otherwise it does nothing.
Cleanup ==
  /\ activeRecording # null
  /\ recordings[activeRecording].status \in {"recording", "paused"}
  /\ EnterStopping("cleanup", activeRecording)
  /\ UNCHANGED <<isFFmpegAvailable, frameCounter, starts, writes, disk, now>>

\* Lines 1160-1170: the catch block of stopRecording, for the call in slot s.
StopFails(s, msg) ==
  /\ recordings' = IF activeRecording = null THEN recordings
                   ELSE [recordings EXCEPT
                           ![activeRecording].status = "failed",
                           ![activeRecording].error = msg]
  /\ stops' = [stops EXCEPT ![s] = IdleStop]
  /\ result' = IF stops[s].op = "stop" THEN Thrown("stop", msg) ELSE NoResult

\* Lines 1107-1126: the grace timer fired; list the frames directory of
\* this.activeRecording, sort its manifest in place and start the scan.
StopAfterGrace(s) ==
  /\ stops[s].pc = "grace"
  /\ IF WebpFiles(activeRecording) = {}
       THEN StopFails(s, ErrNoFramesWritten)
       ELSE /\ recordings' = [recordings EXCEPT ![activeRecording].frameFiles =
                                SortByFrameNumber(@)]
            /\ stops' = [stops EXCEPT ![s].pc = "filter",
                                      ![s].arr = activeRecording,
                                      ![s].i = 1]
            /\ result' = NoResult
  /\ UNCHANGED <<isFFmpegAvailable, activeRecording, frameCounter, starts,
                 writes, disk, now>>

\* Lines 1127-1143: one iteration of the for-of scan over the manifest array
\* (each iteration suspends at fs.pathExists / fs.stat, and the iterator
\* re-reads the array length, so records appended meanwhile are visited);
\* after the last record, fail or call encodeFramesToVideo.
StopFilterStep(s) ==
  /\ stops[s].pc = "filter"
  /\ LET ff == recordings[stops[s].arr].frameFiles
         i == stops[s].i
     IN IF i <= Len(ff)
          THEN /\ stops' = [stops EXCEPT
                    ![s].i = i + 1,
                    ![s].valid = IF ValidFile(stops[s].arr, ff[i])
                                   THEN Append(@, ff[i]) ELSE @]
               /\ result' = NoResult
               /\ UNCHANGED recordings
        ELSE IF stops[s].valid = <<>>
          THEN StopFails(s, ErrNoValidFrames)
        ELSE /\ stops' = [stops EXCEPT ![s].pc = "encoding",
                                       ![s].encRec = activeRecording]
             /\ result' = NoResult
               /\ UNCHANGED recordings
  /\ UNCHANGED <<isFFmpegAvailable, activeRecording, frameCounter, starts,
                 writes, disk, now>>

\* Lines 1357-1389 and 1145: the encoder ended; the artifact URL is stored on
\* the recording it was called with, then generateThumbnail is called with
\* this.activeRecording.
EncodeFinished(s) ==
  /\ stops[s].pc = "encoding"
  /\ recordings' = [recordings EXCEPT ![stops[s].encRec].fileUrl =
                      FileUrl(stops[s].encRec)]
  /\ stops' = [stops EXCEPT ![s].pc = "thumbnail",
                            ![s].thumbRec = activeRecording]
  /\ UNCHANGED <<isFFmpegAvailable, activeRecording, frameCounter, starts,
                 writes, disk, now>>
  /\ result' = NoResult

\* Lines 1390-1398: the encoder (or the set-up of its input) failed.
EncodeFailed(s) ==
  /\ stops[s].pc = "encoding"
  /\ StopFails(s, ErrEncoder)
  /\ UNCHANGED <<isFFmpegAvailable, activeRecording, frameCounter, starts,
                 writes, disk, now>>

\* Lines 1402-1432 and 1147-1158: the thumbnail step ended (made is FALSE
\* when it failed, which is swallowed); mark this.activeRecording completed
\* and return a copy of it.
ThumbnailFinished(s, made) ==
  /\ stops[s].pc = "thumbnail"
  /\ LET withThumb == IF made
                        THEN [recordings EXCEPT ![stops[s].thumbRec].thumbnailUrl =
                                ThumbnailUrl(stops[s].thumbRec)]
                        ELSE recordings
     IN /\ recordings' = [withThumb EXCEPT
                            ![activeRecording].status = "completed",
                            ![activeRecording].completedAt = now]
        /\ result' = IF stops[s].op = "stop"
                       THEN [op |-> "stop", ok |-> TRUE, rec |-> activeRecording,
                             fileUrl |-> withThumb[activeRecording].fileUrl,
                             thumbnailUrl |->
                               withThumb[activeRecording].thumbnailUrl,
                             error |-> ""]
                       ELSE NoResult
  /\ stops' = [stops EXCEPT ![s] = IdleStop]
  /\ UNCHANGED <<isFFmpegAvailable, activeRecording, frameCounter, starts,
                 writes, disk, now>>

\* Capture timestamps a sender may supply with a frame.
FrameTimestamps == {1000}

\* The frameBlob of a ui-frame message: binary data, a value Buffer.from
\* rejects, or nothing.
FramePayloads == {"buffer", "malformed", "missing"}

\* Room for one more call of each kind within the given limits.
StartFits(maxRecordings) ==
  /\ Len(recordings) + starts < maxRecordings
  /\ starts < MaxStarts
FrameFits(maxCounter, maxWrites) ==
  /\ frameCounter < maxCounter
  /\ Cardinality(writes) < maxWrites

\* A step of the manager: the recorder and the encode call stand still.
Manager(A) == A /\ UNCHANGED <<pvars, evars, qvars, wvars, cvars, rvars, lvars>>

Next ==
  \/ Manager(StartFits(MaxRecordings) /\ StartUIRecording)
  \/ Manager(StartRegistered)
  \/ Manager(PauseRecording)
  \/ Manager(ResumeRecording)
  \/ Manager(/\ FrameFits(MaxFrameCounter, MaxWrites)
             /\ \E timestamp \in FrameTimestamps :
                   AddUIFrame(timestamp, "buffer"))
  \/ Manager(\E w \in writes, size \in {null, 0, 1} : FrameWritten(w, size))
  \/ Manager(\E w \in writes : FrameWriteFailed(w))
  \/ Manager(StopRecording)
  \/ Manager(Cleanup)
  \/ Manager(\E s \in StopIds : StopAfterGrace(s))
  \/ Manager(\E s \in StopIds : StopFilterStep(s))
  \/ Manager(\E s \in StopIds : EncodeFinished(s))
  \/ Manager(\E s \in StopIds : EncodeFailed(s))
  \/ Manager(\E s \in StopIds, made \in BOOLEAN : ThumbnailFinished(s, made))
  \/ Manager(Tick)

Spec == Init /\ [][Next]_vars

\* One recording and one stop call at a time, with concurrent frame writes.
NextIngest ==
  \/ Manager(StartFits(1) /\ StartUIRecording)
  \/ Manager(StartRegistered)
  \/ Manager(/\ FrameFits(IngestFrameCounter, IngestWrites)
             /\ \E timestamp \in FrameTimestamps :
                   AddUIFrame(timestamp, "buffer"))
  \/ Manager(\E w \in writes, size \in {null, 0, 1} : FrameWritten(w, size))
  \/ Manager(\E w \in writes : FrameWriteFailed(w))
  \/ Manager(FreeStop = StopIds /\ StopRecording)
  \/ Manager(\E s \in StopIds : StopAfterGrace(s))
  \/ Manager(\E s \in StopIds : StopFilterStep(s))
  \/ Manager(\E s \in StopIds : EncodeFinished(s))
  \/ Manager(\E s \in StopIds : EncodeFailed(s))
  \/ Manager(\E s \in StopIds, made \in BOOLEAN : ThumbnailFinished(s, made))

SpecIngest == Init /\ [][NextIngest]_vars

\* ------------------------------------------------------- addAudioChunk
\* Lines 898 and 932: this.recordings.get(recordingId) || this.activeRecording,
\* for a recordingId that is a key of the map or (0) is not.
Lookup(recordingId) ==
  IF recordingId \in 1..Len(recordings) THEN recordingId ELSE activeRecording

\* server.js 335-347 and lines 931-948: the audio-chunk handler checks the
\* message and decodes the payload; addAudioChunk finds the recording and
\* suspends at fs.writeFile.  The recording's status is not looked at.
AddAudioChunk(recordingId, index, timestamp, payload) ==
  /\ IF payload = "missing"
       THEN /\ result' = Thrown("audio", ErrAudioRequired)
            /\ UNCHANGED writes
     ELSE IF payload = "malformed"
       THEN /\ result' = Thrown("audio", ErrBadPayload)
            /\ UNCHANGED writes
     ELSE IF Lookup(recordingId) = null
       THEN /\ result' = Thrown("audio", ErrNoRecording)
            /\ UNCHANGED writes
     ELSE /\ writes' = writes \cup
                 {[kind |-> "audio", rec |-> Lookup(recordingId),
                   index |-> index, timestamp |-> timestamp]}
          /\ result' = NoResult
  /\ UNCHANGED <<isFFmpegAvailable, recordings, activeRecording, frameCounter,
                 starts, stops, disk, now>>

\* Lines 948-957: the chunk is written; append it to audioFiles and count it.
AudioWritten(w) ==
  /\ w \in writes
  /\ w.kind = "audio"
  /\ writes' = writes \ {w}
  /\ recordings' = [recordings EXCEPT
         ![w.rec].audioFiles =
            Append(@, [index |-> w.index, timestamp |-> w.timestamp]),
         ![w.rec].audioChunksReceived = @ + 1]
  /\ result' = Returned("audio", w.rec)
  /\ UNCHANGED <<isFFmpegAvailable, activeRecording, frameCounter, starts,
                 stops, disk, now>>

\* Lines 958-961: fs.writeFile threw; the error is thrown on to the handler.
AudioWriteFailed(w) ==
  /\ w \in writes
  /\ w.kind = "audio"
  /\ writes' = writes \ {w}
  /\ result' = Thrown("audio", ErrWrite)
  /\ UNCHANGED <<isFFmpegAvailable, recordings, activeRecording, frameCounter,
                 starts, stops, disk, now>>

\* --------------------------------------------------------- addBulkFrames
\* The number of frames at the head of rest that processFrame refuses at
\* line 969 (data that is not a Buffer).
RECURSIVE Refused(_)
Refused(rest) ==
  IF rest # <<>> /\ Head(rest) = "malformed" THEN 1 + Refused(Tail(rest)) ELSE 0

\* Lines 907-921 for the frames rest of a bulk call on recording r, up to
\* the next fs.writeFile: each refused frame is counted as failed and twice
\* as dropped (lines 1011 and 918); the first Buffer takes the next frame
\* number and is written; with no frame left the call returns.
BulkContinue(recs, r, rest, processed, failed, others) ==
  LET k == Refused(rest)
      counted == [recs EXCEPT ![r].droppedFrames = @ + 2 * k]
  IN /\ recordings' = counted
     /\ IF k < Len(rest)
          THEN /\ writes' = others \cup
                    {[kind |-> "bulk", rec |-> r, frameNumber |-> frameCounter,
                      timestamp |-> 1000, during |-> recs[r].status,
                      rest |-> SubSeq(rest, k + 2, Len(rest)),
                      processed |-> processed, failed |-> failed + k]}
               /\ frameCounter' = frameCounter + 1
               /\ result' = NoResult
          ELSE /\ writes' = others
               /\ UNCHANGED frameCounter
               /\ result' = [op |-> "bulk", ok |-> TRUE, rec |-> r,
                             fileUrl |-> null, thumbnailUrl |-> null,
                             error |-> ""]

\* server.js 309-318 and lines 897-921: the bulk-frames handler checks the
\* message; addBulkFrames finds the recording and processes the frames one
\* after the other.  The recording's status is not looked at.
AddBulkFrames(recordingId, frames) ==
  /\ IF frames = <<>>
       THEN /\ result' = Thrown("bulk", ErrBulkRequired)
            /\ UNCHANGED <<recordings, writes, frameCounter>>
     ELSE IF Lookup(recordingId) = null
       THEN /\ result' = Thrown("bulk", ErrNoRecording)
            /\ UNCHANGED <<recordings, writes, frameCounter>>
     ELSE BulkContinue(recordings, Lookup(recordingId), frames, 0, 0, writes)
  /\ UNCHANGED <<isFFmpegAvailable, activeRecording, starts, stops, disk, now>>

\* Lines 978-995 and 915-921: the write of one frame of a bulk call returned
\* (size as in FrameWritten) or threw (written is FALSE); go on with the
\* frames that are left.
BulkFrameDone(w, written, size) ==
  /\ w \in writes
  /\ w.kind = "bulk"
  /\ disk' = IF written /\ size # null
               THEN (<<w.rec, w.frameNumber>> :> size) @@ disk
               ELSE disk
  /\ LET recs == IF written
                   THEN [recordings EXCEPT
                           ![w.rec].frameFiles =
                              Append(@, [frameNumber |-> w.frameNumber,
                                         timestamp |-> w.timestamp]),
                           ![w.rec].framesWritten = @ + 1]
                   ELSE [recordings EXCEPT ![w.rec].droppedFrames = @ + 2]
     IN BulkContinue(recs, w.rec, w.rest,
                     IF written THEN w.processed + 1 ELSE w.processed,
                     IF written THEN w.failed ELSE w.failed + 1,
                     writes \ {w})
  /\ UNCHANGED <<isFFmpegAvailable, activeRecording, starts, stops, now>>

\* ------------------------------------------------- status, bad requests
\* Lines 1443-1454: getStatus reports the active recording, or else the
\* first recording of the map, or null.
GetStatus ==
  IF activeRecording # null THEN activeRecording
  ELSE IF Len(recordings) > 0 THEN 1
  ELSE null

\* server.js 475-484: the get-recording-status handler.
GetRecordingStatus ==
  /\ result' = [Returned("status", GetStatus) EXCEPT !.op = "status"]
  /\ UNCHANGED <<isFFmpegAvailable, recordings, activeRecording, frameCounter,
                 starts, writes, stops, disk, now>>

\* The handlers that need only a room (and a user, for start).
RoomRequests == {"start", "pause", "resume", "stop", "status"}

\* server.js 236-238, 365-367, 400-402, 435-437, 479-481: a request without
\* its roomId throws before the manager is looked up.
InvalidRequest(op) ==
  /\ result' = Thrown(op, ErrRoomRequired)
  /\ UNCHANGED <<isFFmpegAvailable, recordings, activeRecording, frameCounter,
                 starts, writes, stops, disk, now>>

\* ------------------------------------------------------ acknowledgements
Success(res) ==
  [op |-> res.op, success |-> TRUE, rec |-> res.rec, fileUrl |-> res.fileUrl,
   thumbnailUrl |-> res.thumbnailUrl, error |-> ""]
Failure(op, msg) ==
  [op |-> op, success |-> FALSE, rec |-> null, fileUrl |-> null,
   thumbnailUrl |-> null, error |-> msg]

\* A stop handler that acknowledges before the statement of line 449.
StopAcksCallbackFirst(res) ==
  IF res.ok THEN <<Success(res), Failure("stop", ErrConsol)>>
  ELSE <<Failure("stop", res.error)>>

\* server.js 440-471: the callbacks of the stop-recording handler once
\* stopRecording returned or threw res.  After a return the statement of
\* line 449 throws a ReferenceError before the success callback of line
\* 458, and the catch block acknowledges the failure.
StopAcks(res) ==
  IF res.ok THEN <<Failure("stop", ErrConsol)>>
  ELSE <<Failure("stop", res.error)>>

\* server.js 232-499: the callbacks a handler makes once its call into the
\* manager returned or threw res.  The ui-frame handler spreads the result
\* of addUIFrame over {success: true}; the status handler reports a failure
\* when getStatus returned null.
Acks(res) ==
  IF res.op \in {"none", "cleanup"} THEN <<>>
  ELSE IF res.op = "stop" THEN StopAcks(res)
  ELSE IF ~res.ok THEN <<Failure(res.op, res.error)>>
  ELSE IF res.op = "frame" /\ res.error # ""
    THEN <<[Failure("frame", res.error) EXCEPT !.rec = res.rec]>>
  ELSE IF res.op = "status" /\ res.rec = null
    THEN <<Failure("status", ErrNoStatus)>>
  ELSE <<Success(res)>>

\* --------------------------------------------- one session, all requests
ReqFrameCounter == 2
ReqWrites == 1
MaxBulk == 2
ReqAudioChunks == 1
ReqDropped == 2

\* Room for one more audio chunk of the recording a chunk message is for.
AudioFits(recordingId) ==
  /\ Cardinality(writes) < ReqWrites
  /\ Lookup(recordingId) # null =>
        recordings[Lookup(recordingId)].audioChunksReceived < ReqAudioChunks

\* Room for one more bulk call on the recording it is for.
BulkFits(recordingId) ==
  /\ FrameFits(ReqFrameCounter, ReqWrites)
  /\ Lookup(recordingId) # null =>
        recordings[Lookup(recordingId)].droppedFrames < ReqDropped

BulkInputs ==
  UNION {[1..n -> {"buffer", "malformed"}] : n \in 0..MaxBulk}

NextRequests ==
  \/ Manager(StartFits(1) /\ StartUIRecording)
  \/ Manager(StartRegistered)
  \/ Manager(PauseRecording)
  \/ Manager(ResumeRecording)
  \/ Manager(/\ FrameFits(ReqFrameCounter, ReqWrites)
             /\ \E timestamp \in FrameTimestamps, payload \in FramePayloads :
                   AddUIFrame(timestamp, payload))
  \/ Manager(\E w \in writes, size \in {null, 0, 1} : FrameWritten(w, size))
  \/ Manager(\E w \in writes : FrameWriteFailed(w))
  \/ Manager(\E recordingId \in 0..1, payload \in FramePayloads :
               /\ AudioFits(recordingId)
               /\ AddAudioChunk(recordingId, 0, 1000, payload))
  \/ Manager(\E w \in writes : AudioWritten(w))
  \/ Manager(\E w \in writes : AudioWriteFailed(w))
  \/ Manager(\E recordingId \in 0..1, frames \in BulkInputs :
               /\ BulkFits(recordingId)
               /\ AddBulkFrames(recordingId, frames))
  \/ Manager(\E w \in writes, written \in BOOLEAN, size \in {null, 1} :
               BulkFrameDone(w, written, size))
  \/ Manager(GetRecordingStatus)
  \/ Manager(\E op \in RoomRequests : InvalidRequest(op))
  \/ Manager(StopRecording)
  \/ Manager(\E s \in StopIds : StopAfterGrace(s))
  \/ Manager(\E s \in StopIds : StopFilterStep(s))
  \/ Manager(\E s \in StopIds : EncodeFinished(s))
  \/ Manager(\E s \in StopIds : EncodeFailed(s))
  \/ Manager(\E s \in StopIds, made \in BOOLEAN : ThumbnailFinished(s, made))

SpecRequests == Init /\ [][NextRequests]_vars

\* ------------------------------------------------- recorder: capture queue
Min(a, b) == IF a <= b THEN a ELSE b

\* A backpressure step that evicts one frame at a time.
BackpressureDropOne(q) ==
  IF Len(q) >= MAX_QUEUE_SIZE THEN SubSeq(q, 2, Len(q)) ELSE q

\* Lines 453-457: frameQueueRef.current after the backpressure check.
Backpressure(q) ==
  IF Len(q) >= MAX_QUEUE_SIZE
    THEN SubSeq(q, Min(DropBatch, Len(q)) + 1, Len(q))
    ELSE q

\* Lines 453-455: dropped.length of the backpressure check on queue q.
Dropped(q) == Len(q) - Len(Backpressure(q))

\* Lines 541-544: processFrameQueue goes on when called with queue q.
SendLoopRuns(q) == ~isProcessing /\ q # <<>> /\ connected

\* Lines 540-556: the synchronous part of processFrameQueue called with
\* queue q: take a batch of at most 10 frames, or return at once.
ProcessFrameQueue(q) ==
  IF SendLoopRuns(q)
    THEN LET batchSize == Min(SendBatch, Len(q))
         IN /\ isProcessing' = TRUE
            /\ sending' = SubSeq(q, 1, batchSize)
            /\ frameQueue' = SubSeq(q, batchSize + 1, Len(q))
    ELSE /\ frameQueue' = q
         /\ UNCHANGED <<isProcessing, sending>>

\* Lines 438-493: the toBlob callback of captureFrame: count the frame, apply
\* backpressure, enqueue, and trigger the send loop.
CaptureFrame ==
  /\ frameNumber' = frameNumber + 1
  /\ droppedFrames' = droppedFrames + Dropped(frameQueue)
  /\ ProcessFrameQueue(Append(Backpressure(frameQueue), frameNumber + 1))
  /\ UNCHANGED <<connected, timers>>

\* A send loop that goes idle after every batch.
RescheduledNever(q) == 0

\* Lines 582-585: the timers set after a batch, with queue q left
\* (isRecordingRef.current is true while the recording is active).
Rescheduled(q) == IF q # <<>> THEN 1 ELSE 0

\* Lines 558-586: the batch was emitted (a send that fails is swallowed,
\* lines 570-572); release the loop and reschedule it after 5 ms when frames
\* are waiting.
BatchSent ==
  /\ isProcessing
  /\ isProcessing' = FALSE
  /\ sending' = <<>>
  /\ timers' = timers + Rescheduled(frameQueue)
  /\ UNCHANGED <<frameQueue, droppedFrames, frameNumber, connected>>

\* Line 584: a rescheduled processFrameQueue runs.
SendLoopTimer ==
  /\ timers > 0
  /\ timers' = timers - 1
  /\ ProcessFrameQueue(frameQueue)
  /\ UNCHANGED <<droppedFrames, frameNumber, connected>>

\* Lines 114-123: the socket connects or disconnects.
SocketFlips ==
  /\ connected' = ~connected
  /\ UNCHANGED <<frameQueue, droppedFrames, frameNumber, isProcessing,
                 sending, timers>>

\* A step of the recorder: the manager and the encode call stand still.
Producer(A) ==
  A /\ UNCHANGED <<mvars, evars, qvars, wvars, cvars, rvars, lvars>>

NextProducer ==
  \/ Producer(frameNumber < MaxCaptured /\ CaptureFrame)
  \/ Producer((frameQueue = <<>> \/ timers < MaxTimers) /\ BatchSent)
  \/ Producer(SendLoopTimer)
  \/ Producer(SocketFlips)

InitProducer ==
  ManagerNew /\ isFFmpegAvailable /\ ProducerIdle /\ EncodeIdle /\ QueueNew(0)

SpecProducer == InitProducer /\ [][NextProducer]_vars

\* Line 427: the capture loop takes a frame only while the socket is
\* connected (and the recorder is not paused and the video has data).
CaptureAllowed == connected

\* The recorder while its recording is active: timers fire and the sends of
\* a batch settle; captures and socket events come as they may.
LiveCaptured == 12

BatchSentStep == Producer((frameQueue = <<>> \/ timers < MaxTimers) /\ BatchSent)
SendLoopTimerStep == Producer(SendLoopTimer)

NextLive ==
  \/ Producer(frameNumber < LiveCaptured /\ CaptureAllowed /\ CaptureFrame)
  \/ BatchSentStep
  \/ SendLoopTimerStep
  \/ Producer(SocketFlips)

SpecLive ==
  /\ InitProducer
  /\ [][NextLive]_vars
  /\ WF_vars(BatchSentStep)
  /\ WF_vars(SendLoopTimerStep)

\* ------------------------------------------------- encodeFramesToVideo
\* Math.round(p / q) for q # 0: the nearest integer, halves towards +infinity.
RoundDiv(p, q) ==
  IF q > 0 THEN (2 * p + q) \div (2 * q)
  ELSE (q - 2 * p) \div (-2 * q)

\* An encode rate without the cap of 60.
EncodeRateUncapped(fps, frameInfos) ==
  LET n == Len(frameInfos)
      span == frameInfos[n].timestamp - frameInfos[1].timestamp
  IN IF n > 1 /\ span > 0 THEN RoundDiv(n * 1000, span) ELSE fps

\* Lines 1183-1195: actualFPS.  duration = span / 1000 seconds, so the rate
\* is round(n * 1000 / span), computed here in exact arithmetic.
EncodeRate(fps, frameInfos) ==
  LET n == Len(frameInfos)
      span == frameInfos[n].timestamp - frameInfos[1].timestamp
  IN IF n > 1 /\ span > 0 THEN Min(RoundDiv(n * 1000, span), 60) ELSE fps

\* (1 / rate).toFixed(6) in microseconds, for rate > 0.
FrameMicros(rate) == RoundDiv(1000000, rate)

\* A duration line that takes the timestamp difference as it is.
DurationUnfloored(diff, rate) == [inf |-> FALSE, micros |-> diff * 1000]

\* Lines 1211 and 1218: Math.max(diff / 1000, 1 / rate).toFixed(6), for a
\* difference of diff milliseconds; 1 / 0 is Infinity.
Duration(diff, rate) ==
  IF rate = 0 THEN [inf |-> TRUE, micros |-> 0]
  ELSE IF diff * rate >= 1000 THEN [inf |-> FALSE, micros |-> diff * 1000]
  ELSE [inf |-> FALSE, micros |-> FrameMicros(rate)]

\* Lines 1214 and 1218: the duration line of the last frame.
LastDuration(rate) ==
  IF rate = 0 THEN [inf |-> TRUE, micros |-> 0]
  ELSE [inf |-> FALSE, micros |-> FrameMicros(rate)]

FileLine(f) == [file |-> f.frameNumber]

\* Lines 1200-1224: the lines of the concat list: for frame i a file line
\* (line 2i - 1) and a duration line (line 2i), then the last file again.
ConcatLines(frameInfos, rate) ==
  LET n == Len(frameInfos)
  IN [k \in 1..(2 * n + 1) |->
        IF k = 2 * n + 1 THEN FileLine(frameInfos[n])
        ELSE IF k % 2 = 1 THEN FileLine(frameInfos[(k + 1) \div 2])
        ELSE IF k < 2 * n
          THEN Duration(frameInfos[k \div 2 + 1].timestamp
                          - frameInfos[k \div 2].timestamp, rate)
        ELSE LastDuration(rate)]

\* Insert x into a list sorted by index, after its equals (stable).
RECURSIVE InsertByIndex(_, _)
InsertByIndex(x, s) ==
  IF s = <<>> THEN <<x>>
  ELSE IF x.index < Head(s).index THEN <<x>> \o s
  ELSE <<Head(s)>> \o InsertByIndex(x, Tail(s))

\* Line 1238: recording.audioFiles.sort((a, b) => a.index - b.index)
RECURSIVE SortByIndex(_)
SortByIndex(s) ==
  IF s = <<>> THEN <<>>
  ELSE InsertByIndex(s[Len(s)], SortByIndex(SubSeq(s, 1, Len(s) - 1)))

\* Lines 1280-1282: audioOffsetSec, in milliseconds.
AudioOffset(frameInfos, audioFiles) ==
  SortByIndex(audioFiles)[1].timestamp - frameInfos[1].timestamp

\* An audio input that is shifted by any non-zero offset.
AudioInputNoTolerance(offset) ==
  IF offset > 0 THEN [audio |-> TRUE, itsoffset |-> offset, ss |-> null]
  ELSE IF offset < 0 THEN [audio |-> TRUE, itsoffset |-> null, ss |-> -offset]
  ELSE [audio |-> TRUE, itsoffset |-> null, ss |-> null]

\* Lines 1307-1315: the merged audio as an input of the final command, for
\* an offset in milliseconds: -itsoffset above 0.05 s, -ss below -0.05 s.
AudioInput(offset) ==
  IF offset > 50 THEN [audio |-> TRUE, itsoffset |-> offset, ss |-> null]
  ELSE IF offset < -50 THEN [audio |-> TRUE, itsoffset |-> null, ss |-> -offset]
  ELSE [audio |-> TRUE, itsoffset |-> null, ss |-> null]

\* An encoder command that takes the audio whether the merge left a file or
\* not.
MuxAudioUnmerged(withAudio, frameInfos, audioFiles, merged) ==
  IF withAudio /\ audioFiles # <<>>
    THEN AudioInput(AudioOffset(frameInfos, audioFiles))
    ELSE NoAudioInput

\* Lines 1232-1316: the audio is merged and added when the call asks for
\* audio, chunks exist and the merge leaves a file; otherwise the command
\* has no audio input.  recording.options.withAudio is always true (line 824).
MuxAudio(withAudio, frameInfos, audioFiles, merged) ==
  IF withAudio /\ audioFiles # <<>> /\ merged
    THEN AudioInput(AudioOffset(frameInfos, audioFiles))
    ELSE NoAudioInput

\* Lines 1180-1316: encodeFramesToVideo up to the built ffmpeg command.
EncodeFramesToVideo ==
  /\ encRate = null
  /\ encRate' = EncodeRate(encFps, encFrames)
  /\ encLines' = ConcatLines(encFrames, EncodeRate(encFps, encFrames))
  /\ encMux' = MuxAudio(encWithAudio, encFrames, encAudio, encMerged)
  /\ UNCHANGED <<encFps, encFrames, encWithAudio, encAudio, encMerged>>

\* Inputs of the encode call.
MaxEncFrames == 3
EncTimestamps == {1000, 1010, 3000, 5000, 11000}
EncFpsChoices == {15, 30}

FrameList(ts) == [i \in 1..Len(ts) |-> [frameNumber |-> i - 1, timestamp |-> ts[i]]]

\* n frames spread evenly over span milliseconds.
Uniform(n, span) ==
  [i \in 1..n |-> [frameNumber |-> i - 1,
                   timestamp |-> 1000 + ((i - 1) * span) \div (n - 1)]]

EncInputs ==
  {FrameList(ts) : ts \in UNION {[1..n -> EncTimestamps] : n \in 1..MaxEncFrames}}
    \cup {Uniform(300, 10000), Uniform(150, 2000)}

InitEncode ==
  /\ ManagerNew /\ isFFmpegAvailable /\ ProducerIdle /\ QueueNew(0)
  /\ encFps \in EncFpsChoices
  /\ encFrames \in EncInputs
  /\ encRate = null
  /\ encLines = <<>>
  /\ encWithAudio = TRUE
  /\ encAudio = <<>>
  /\ encMerged = TRUE
  /\ encMux = NoAudioInput

\* Inputs of an encode call with audio chunks.
MaxAudioChunks == 2
MaxMuxFrames == 2
AudioTimestamps == {800, 949, 950, 1000, 1050, 1051, 1200}
MuxFrameTimestamps == {1000, 3000}

\* Lists of chunks with distinct indexes, in any arrival order.
AudioInputs ==
  {a \in UNION {[1..n -> [index : 0..(MaxAudioChunks - 1),
                          timestamp : AudioTimestamps]] : n \in 0..MaxAudioChunks} :
     \A i, j \in 1..Len(a) : i # j => a[i].index # a[j].index}

InitMux ==
  /\ ManagerNew /\ isFFmpegAvailable /\ ProducerIdle /\ QueueNew(0)
  /\ encFps = 30
  /\ encFrames \in {FrameList(ts) :
        ts \in UNION {[1..n -> MuxFrameTimestamps] : n \in 1..MaxMuxFrames}}
  /\ encRate = null
  /\ encLines = <<>>
  /\ encWithAudio \in BOOLEAN
  /\ encAudio \in AudioInputs
  /\ encMerged \in BOOLEAN
  /\ encMux = NoAudioInput

NextEncode ==
  EncodeFramesToVideo
  /\ UNCHANGED <<mvars, pvars, qvars, wvars, cvars, rvars, lvars>>

SpecEncode == InitEncode /\ [][NextEncode]_vars

SpecMux == InitMux /\ [][NextEncode]_vars

\* ------------------------------------------ recorder: the capture loop
\* The last line of captureFrame before FIX #1 of src/FRAME_CAPTURE_FIX.js:
\* no reschedule while paused.
ReschedulesUnlessPaused == isRecordingRef /\ ~isPausedRef

\* Lines 505-507: captureFrame schedules itself again.
Reschedules == isRecordingRef

\* Lines 427 and 432: the callback starts a capture; due says that the
\* video has data and FRAME_INTERVAL has elapsed.
CaptureStarts(due) == ~isPausedRef /\ connected /\ due

\* Lines 421-508: a requestAnimationFrame callback runs captureFrame.
CaptureLoop(due) ==
  /\ animationFrame
  /\ IF ~isRecordingRef
       THEN animationFrame' = FALSE /\ UNCHANGED blobs
       ELSE /\ blobs' = IF CaptureStarts(due) THEN blobs + 1 ELSE blobs
            /\ animationFrame' = Reschedules
  /\ UNCHANGED <<pvars, isRecordingRef, isPausedRef, recordingIdRef, batches,
                 emitted, draining>>

\* Lines 541-556: the batch that processFrameQueue takes when called with
\* queue q, as an entry of batches; none when it returns at once.
Taken(q) ==
  IF SendLoopRuns(q)
    THEN <<[rec |-> recordingIdRef,
            pending |-> {q[i] : i \in 1..Min(SendBatch, Len(q))}]>>
    ELSE <<>>

\* Lines 438-493: a toBlob callback: enqueue the frame and call the send
\* loop, when a recording id is set and the recording is active.
BlobReady ==
  /\ blobs > 0
  /\ blobs' = blobs - 1
  /\ IF recordingIdRef # null /\ isRecordingRef
       THEN /\ CaptureFrame
            /\ batches' = batches \o
                  Taken(Append(Backpressure(frameQueue), frameNumber + 1))
       ELSE UNCHANGED <<pvars, batches>>
  /\ UNCHANGED <<isRecordingRef, isPausedRef, recordingIdRef, animationFrame,
                 emitted, draining>>

\* Lines 558-567: the arrayBuffer() conversion of frame f of batch b ended
\* and the frame is emitted.
FrameConverted(b, f) ==
  /\ b \in 1..Len(batches)
  /\ f \in batches[b].pending
  /\ batches' = [batches EXCEPT ![b].pending = @ \ {f}]
  /\ emitted' = Append(emitted, [rec |-> batches[b].rec, frame |-> f])
  /\ UNCHANGED <<pvars, isRecordingRef, isPausedRef, recordingIdRef,
                 animationFrame, blobs, draining>>

\* Lines 575-586: every send of batch b has settled; the finally block
\* releases the loop and sets the 5 ms timer when frames wait and the
\* recording is active.
BatchSettled(b) ==
  /\ b \in 1..Len(batches)
  /\ batches[b].pending = {}
  /\ batches' = SubSeq(batches, 1, b - 1) \o SubSeq(batches, b + 1, Len(batches))
  /\ isProcessing' = FALSE
  /\ sending' = <<>>
  /\ timers' = timers + (IF isRecordingRef THEN Rescheduled(frameQueue) ELSE 0)
  /\ UNCHANGED <<frameQueue, droppedFrames, frameNumber, connected,
                 isRecordingRef, isPausedRef, recordingIdRef, animationFrame,
                 blobs, emitted, draining>>

\* Line 584: a rescheduled processFrameQueue runs.
SendLoopTimerRuns ==
  /\ SendLoopTimer
  /\ batches' = batches \o Taken(frameQueue)
  /\ UNCHANGED <<isRecordingRef, isPausedRef, recordingIdRef, animationFrame,
                 blobs, emitted, draining>>

\* Lines 813-831: the pause request was acknowledged with success.
PauseAcknowledged ==
  /\ isRecordingRef /\ ~isPausedRef
  /\ isPausedRef' = TRUE
  /\ UNCHANGED <<pvars, isRecordingRef, recordingIdRef, animationFrame, blobs,
                 batches, emitted, draining>>

\* Lines 833-856: the resume request was acknowledged with success.
ResumeAcknowledged ==
  /\ isRecordingRef /\ isPausedRef
  /\ isPausedRef' = FALSE
  /\ UNCHANGED <<pvars, isRecordingRef, recordingIdRef, animationFrame, blobs,
                 batches, emitted, draining>>

\* Lines 858-908: stopRecording up to its loop: the refs are cleared and the
\* animation frame is cancelled; the loop runs when frames wait.
StopCapturing ==
  /\ isRecordingRef /\ recordingIdRef # null
  /\ isRecordingRef' = FALSE
  /\ isPausedRef' = FALSE
  /\ animationFrame' = FALSE
  /\ draining' = (frameQueue # <<>>)
  /\ UNCHANGED <<pvars, recordingIdRef, blobs, batches, emitted>>

\* Lines 909-912: one turn of the loop of stopRecording: call the send loop
\* while frames wait and the socket is connected.
DrainTurn ==
  /\ draining
  /\ IF frameQueue # <<>> /\ connected
       THEN /\ ProcessFrameQueue(frameQueue)
            /\ batches' = batches \o Taken(frameQueue)
            /\ UNCHANGED draining
       ELSE /\ draining' = FALSE
            /\ UNCHANGED <<frameQueue, isProcessing, sending, batches>>
  /\ UNCHANGED <<droppedFrames, frameNumber, connected, timers, isRecordingRef,
                 isPausedRef, recordingIdRef, animationFrame, blobs, emitted>>

\* Lines 731-811: stopStreams(), called for a recording-stopped event, a
\* failed start and after the stop was acknowledged: refs, queue and
\* counters are reset; timers and conversions that are due stay due.
StopStreams ==
  /\ isRecordingRef' = FALSE
  /\ isPausedRef' = FALSE
  /\ isProcessing' = FALSE
  /\ animationFrame' = FALSE
  /\ frameQueue' = <<>>
  /\ recordingIdRef' = null
  /\ frameNumber' = 0
  /\ UNCHANGED <<droppedFrames, connected, sending, timers, blobs, batches,
                 emitted, draining>>

\* Lines 637-665 and 536-537: the start was acknowledged with recording id
\* recId; the refs and the queue are reset and the capture loop starts.
RecordingStarted(recId) ==
  /\ ~isRecordingRef
  /\ recordingIdRef' = recId
  /\ isRecordingRef' = TRUE
  /\ isPausedRef' = FALSE
  /\ frameQueue' = <<>>
  /\ frameNumber' = 0
  /\ droppedFrames' = 0
  /\ animationFrame' = TRUE
  /\ UNCHANGED <<isProcessing, connected, sending, timers, blobs, batches,
                 emitted, draining>>

\* A step of the recorder's capture and send loops.
Capture(A) == A /\ UNCHANGED <<mvars, evars, qvars, wvars, cvars, rvars>>

\* Frames captured in one recording, and recordings of the recorder.
CapFrames == 2
MaxRuns == 2

CaptureDueStep ==
  Capture(frameNumber + blobs < CapFrames /\ CaptureLoop(TRUE))
BlobReadyStep == Capture(BlobReady)

NextCapture ==
  \/ CaptureDueStep
  \/ Capture(CaptureLoop(FALSE))
  \/ BlobReadyStep
  \/ Capture(\E b \in 1..Len(batches) : \E f \in batches[b].pending :
                FrameConverted(b, f))
  \/ Capture(\E b \in 1..Len(batches) :
                (frameQueue = <<>> \/ timers < MaxTimers) /\ BatchSettled(b))
  \/ Capture(SendLoopTimerRuns)
  \/ Capture(PauseAcknowledged)
  \/ Capture(ResumeAcknowledged)
  \/ Capture(StopCapturing)
  \/ Capture(DrainTurn)
  \/ Capture(isRecordingRef /\ StopStreams)
  \/ Capture(\E recId \in 2..MaxRuns :
                /\ \A i \in 1..Len(emitted) : emitted[i].rec < recId
                /\ \A b \in 1..Len(batches) : batches[b].rec < recId
                /\ RecordingStarted(recId))
  \/ Capture(SocketFlips /\ UNCHANGED lvars)

\* The browser runs every animation frame callback and every toBlob
\* callback that is due, and the frame interval elapses.
SpecCapture ==
  /\ InitProducer
  /\ [][NextCapture]_vars
  /\ WF_vars(CaptureDueStep)
  /\ WF_vars(BlobReadyStep)

\* ------------------------------------- sequence numbers over two sessions
\* Frame numbers a manager hands out between two starts.
SeqFrameCounter == 2

\* Two sessions of one manager, one after the other or overlapping, with
\* single frames for the active recording and bulk frames addressed to
\* either recording.
NextSequence ==
  \/ Manager(StartFits(MaxRecordings) /\ StartUIRecording)
  \/ Manager(StartRegistered)
  \/ Manager(/\ FrameFits(SeqFrameCounter, 1)
             /\ \E timestamp \in FrameTimestamps :
                   AddUIFrame(timestamp, "buffer"))
  \/ Manager(\E w \in writes : FrameWritten(w, 1))
  \/ Manager(\E recordingId \in 1..MaxRecordings :
               /\ FrameFits(SeqFrameCounter, 1)
               /\ AddBulkFrames(recordingId, <<"buffer">>))
  \/ Manager(\E w \in writes : BulkFrameDone(w, TRUE, 1))
  \/ Manager(StopRecording)
  \/ Manager(\E s \in StopIds : StopAfterGrace(s))
  \/ Manager(\E s \in StopIds : StopFilterStep(s))
  \/ Manager(\E s \in StopIds : EncodeFinished(s))
  \/ Manager(\E s \in StopIds : ThumbnailFinished(s, TRUE))

SpecSequence == Init /\ [][NextSequence]_vars

\* ------------------------------------------------ stops that terminate
\* Lines 1102-1171: the continuation of the stop in slot s after any of its
\* awaits: the grace timer, a file test of the scan, the encoder, the
\* thumbnail step.
StopContinues(s) ==
  \/ StopAfterGrace(s)
  \/ StopFilterStep(s)
  \/ EncodeFinished(s)
  \/ EncodeFailed(s)
  \/ \E made \in BOOLEAN : ThumbnailFinished(s, made)

StopContinuesStep(s) == Manager(StopContinues(s))

\* One manager with starts, frames, stops and disconnect cleanups arriving
\* while a stop is suspended.
NextStopping ==
  \/ Manager(StartFits(MaxRecordings) /\ StartUIRecording)
  \/ Manager(StartRegistered)
  \/ Manager(/\ FrameFits(SeqFrameCounter, 1)
             /\ \E timestamp \in FrameTimestamps :
                   AddUIFrame(timestamp, "buffer"))
  \/ Manager(\E w \in writes : FrameWritten(w, 1))
  \/ Manager(StopRecording)
  \/ Manager(Cleanup)
  \/ \E s \in StopIds : StopContinuesStep(s)

\* Timers fire and every storage operation and encoder invocation ends:
\* weak fairness of the continuation of each stop.
SpecStopping ==
  /\ Init
  /\ [][NextStopping]_vars
  /\ \A s \in StopIds : WF_vars(StopContinuesStep(s))

\* --------------------------------------- the stop with its encoder call
\* Lines 1143 and 1180-1316: the stop calls encodeFramesToVideo with the
\* active recording and the valid frames; the rate, the concat list and the
\* audio input are computed, the audio merge having succeeded or not
\* (lines 1246-1293).  withAudio is true when chunks exist (lines 1085-1088).
EncoderCalled(s, merged) ==
  /\ stops[s].pc = "encoding"
  /\ encRate = null
  /\ encFrames' = stops[s].valid
  /\ encAudio' = recordings[stops[s].encRec].audioFiles
  /\ encWithAudio' = TRUE
  /\ encMerged' = merged
  /\ encRate' = EncodeRate(encFps, stops[s].valid)
  /\ encLines' = ConcatLines(stops[s].valid, EncodeRate(encFps, stops[s].valid))
  /\ encMux' = MuxAudio(TRUE, stops[s].valid,
                        recordings[stops[s].encRec].audioFiles, merged)
  /\ UNCHANGED <<encFps, mvars, pvars, qvars, wvars, cvars, rvars, lvars>>

\* Frames and audio chunks of the session.
AuxFrames == 2
AuxAudioTimestamps == {800, 1200}

\* One session with frames and audio chunks, and its stop with the encoder
\* call, whose audio merge and thumbnail step may fail.
NextAux ==
  \/ Manager(StartFits(1) /\ StartUIRecording)
  \/ Manager(StartRegistered)
  \/ Manager(/\ FrameFits(AuxFrames, 1)
             /\ \E timestamp \in MuxFrameTimestamps :
                   AddUIFrame(timestamp, "buffer"))
  \/ Manager(\E w \in writes : FrameWritten(w, 1))
  \/ Manager(\E index \in 0..(MaxAudioChunks - 1),
                timestamp \in AuxAudioTimestamps :
               /\ AudioFits(0)
               /\ AddAudioChunk(0, index, timestamp, "buffer"))
  \/ Manager(\E w \in writes : AudioWritten(w))
  \/ Manager(StopRecording)
  \/ Manager(\E s \in StopIds : StopAfterGrace(s))
  \/ Manager(\E s \in StopIds : StopFilterStep(s))
  \/ \E s \in StopIds, merged \in BOOLEAN : EncoderCalled(s, merged)
  \/ Manager(\E s \in StopIds : encRate # null /\ EncodeFinished(s))
  \/ Manager(\E s \in StopIds, made \in BOOLEAN : ThumbnailFinished(s, made))

SpecAux == Init /\ [][NextAux]_vars

\* ------------------------------------------------------- ProcessingQueue
RECURSIVE InsertByPriority(_, _)

\* An add() that pushes the entry and does not sort.
InsertAtEnd(x, s) == Append(s, x)

\* Lines 90-92: push x and sort by descending priority; the sort is stable,
\* so x comes after the entries of its own priority.
InsertByPriority(x, s) ==
  IF s = <<>> THEN <<x>>
  ELSE IF x.priority > Head(s).priority THEN <<x>> \o s
  ELSE <<Head(s)>> \o InsertByPriority(x, Tail(s))

\* A loop condition that does not look at the jobs running.
CanStartAnyNumber(q, active) == q # <<>>

\* Line 105: the condition of the while loop of process(), with q waiting
\* and active jobs running.
CanStart(q, active) == q # <<>> /\ active < maxConcurrent

\* Lines 105-119 from the loop condition on: start the job at the head of q
\* (lines 106-112) and suspend at the delay timer when more entries wait
\* (lines 114-116; processingDelay is positive), or leave the loop and clear
\* isProcessing. run is the set of jobs running.
ProcessLoop(q, active, run) ==
  IF CanStart(q, active)
    THEN /\ queue' = Tail(q)
         /\ activeJobs' = active + 1
         /\ running' = run \cup {Head(q).id}
         /\ started' = Append(started, Head(q))
         /\ delaying' = (Tail(q) # <<>>)
         /\ queueBusy' = (Tail(q) # <<>>)
    ELSE /\ queue' = q
         /\ activeJobs' = active
         /\ running' = run
         /\ delaying' = FALSE
         /\ queueBusy' = FALSE
         /\ UNCHANGED started

\* A process() that returns at once whenever it is called.
ProcessNever(q, active, run) ==
  /\ queue' = q
  /\ activeJobs' = active
  /\ running' = run
  /\ UNCHANGED <<queueBusy, delaying, started>>

\* Lines 96-103: process(): return at once when a loop is running, nothing
\* waits or no slot is free; else run the loop.
Process(q, active, run) ==
  IF queueBusy \/ q = <<>> \/ active >= maxConcurrent
    THEN /\ queue' = q
         /\ activeJobs' = active
         /\ running' = run
         /\ UNCHANGED <<queueBusy, delaying, started>>
    ELSE ProcessLoop(q, active, run)

\* Lines 89-94: add(job, priority).
Add(priority) ==
  /\ nextJob' = nextJob + 1
  /\ lastJob' = "none"
  /\ Process(InsertByPriority([id |-> nextJob, priority |-> priority], queue),
             activeJobs, running)
  /\ UNCHANGED maxConcurrent

\* Line 115: the delay timer of process() fired; the loop goes on.
DelayElapsed ==
  /\ delaying
  /\ lastJob' = "none"
  /\ ProcessLoop(queue, activeJobs, running)
  /\ UNCHANGED <<maxConcurrent, nextJob>>

\* Lines 109-112 and 122-134: job id settled (threw tells how; executeJob
\* catches what it threw) and the finally callback runs: release the slot
\* and call process().
JobFinished(id, threw) ==
  /\ id \in running
  /\ lastJob' = (IF threw THEN "threw" ELSE "done")
  /\ Process(queue, activeJobs - 1, running \ {id})
  /\ UNCHANGED <<maxConcurrent, nextJob>>

\* Lines 151-153: clear().
Clear ==
  /\ queue # <<>>
  /\ queue' = <<>>
  /\ lastJob' = "none"
  /\ UNCHANGED <<queueBusy, activeJobs, maxConcurrent, delaying, running,
                 nextJob, started>>

MaxJobs == 5
JobPriorities == {0, 1}
MaxConcurrentOption == 2

InQueue(A) ==
  A /\ UNCHANGED <<mvars, pvars, evars, wvars, cvars, rvars, lvars>>

NextQueue ==
  \/ InQueue(/\ nextJob <= MaxJobs
             /\ \E priority \in JobPriorities : Add(priority))
  \/ InQueue(DelayElapsed)
  \/ InQueue(\E id \in running, threw \in BOOLEAN : JobFinished(id, threw))
  \/ InQueue(Clear)

InitQueue ==
  /\ ManagerNew /\ isFFmpegAvailable /\ ProducerIdle /\ EncodeIdle
  /\ \E option \in 0..MaxConcurrentOption : QueueNew(option)

SpecQueue == InitQueue /\ [][NextQueue]_vars

\* The queue with timers that fire and jobs that settle: weak fairness of
\* the delay timer of process() and of the settling of every job.
DelayElapsedStep == InQueue(DelayElapsed)
JobFinishedStep(id) == InQueue(\E threw \in BOOLEAN : JobFinished(id, threw))

SpecQueueLive ==
  /\ InitQueue
  /\ [][NextQueue]_vars
  /\ WF_vars(DelayElapsedStep)
  /\ \A id \in 1..MaxJobs : WF_vars(JobFinishedStep(id))

\* ---------------------------------------------------- waitForCompletion
maxAttempts == 30

\* A loop condition without the bound on the attempts.
KeepWaitingForEver(n) == queue # <<>> \/ activeJobs > 0

\* Line 142: the condition of the polling loop, with n attempts made.
KeepWaiting(n) == (queue # <<>> \/ activeJobs > 0) /\ n < maxAttempts

\* Lines 137-142: waitForCompletion() called: the loop condition is tested
\* at once.
WaitForCompletion ==
  /\ waiting = "idle"
  /\ attempts' = 0
  /\ waiting' = IF KeepWaiting(0) THEN "polling" ELSE "returned"

\* Lines 143-145: the 1 s timer of the loop fired; count the attempt and test
\* the loop condition again.
WaitPolled ==
  /\ waiting = "polling"
  /\ attempts' = attempts + 1
  /\ waiting' = IF KeepWaiting(attempts + 1) THEN "polling" ELSE "returned"

InWait(A) == A /\ UNCHANGED <<mvars, pvars, evars, qvars, cvars, rvars, lvars>>
WaitPolledStep == InWait(attempts <= maxAttempts /\ WaitPolled)

DrainJobs == 3

NextDrain ==
  \/ InQueue(/\ nextJob <= DrainJobs
             /\ \E priority \in JobPriorities : Add(priority))
  \/ InQueue(DelayElapsed)
  \/ InQueue(\E id \in running, threw \in BOOLEAN : JobFinished(id, threw))
  \/ InQueue(Clear)
  \/ InWait(WaitForCompletion)
  \/ WaitPolledStep

\* The timer of the polling loop fires; jobs may run for ever.
SpecDrain == InitQueue /\ [][NextDrain]_vars /\ WF_vars(WaitPolledStep)

\* ------------------------------------- recorder: stop and status polling
\* Lines 973-999: startStatusPolling() sets the 2 s interval and polls once
\* at once, unless an interval is set already.
StartStatusPolling ==
  IF statusPoll
    THEN UNCHANGED <<statusPoll, fetching, polls>>
    ELSE /\ statusPoll' = TRUE
         /\ fetching' = fetching + 1
         /\ polls' = polls + 1

\* Lines 858-929: stopRecording() of the recorder up to the stop request,
\* once a recording was started: set the 2 minute timer, stop capturing,
\* send what is queued, send stop.
RecorderStop ==
  /\ stopPhase = "recording"
  /\ Len(recordings) > 0
  /\ stopPhase' = "sent"
  /\ processingTimeout' = "pending"
  /\ UNCHANGED <<statusPoll, fetching, polls, downloadUrl, processingFailed>>

\* Lines 932-969: the acknowledgement of the stop request.  The callback
\* tests the processingTimeout state as it was when stopRecording was
\* created, before line 872 set it, so the timer stays.  Success with a
\* fileUrl sets the download URL; success without one starts the polling and
\* then calls stopStreams(), which clears the interval (lines 789-792);
\* failure sets processingFailed and starts the polling.
StopAcknowledged(success, fileUrl) ==
  /\ stopPhase \in {"sent", "awaited"}
  /\ stopPhase' = "acknowledged"
  /\ UNCHANGED processingTimeout
  /\ IF success /\ fileUrl # null
       THEN /\ downloadUrl' = fileUrl
            /\ processingFailed' = FALSE
            /\ statusPoll' = FALSE
            /\ UNCHANGED <<fetching, polls>>
     ELSE IF success
       THEN /\ statusPoll' = FALSE
            /\ fetching' = IF statusPoll THEN fetching ELSE fetching + 1
            /\ polls' = IF statusPoll THEN polls ELSE polls + 1
            /\ UNCHANGED <<downloadUrl, processingFailed>>
     ELSE /\ StartStatusPolling
          /\ processingFailed' = TRUE
          /\ UNCHANGED downloadUrl

\* Lines 866-870: the 2 minute timer fired: it sets the processing flags
\* and leaves the polling interval alone.
ProcessingTimedOut ==
  /\ processingTimeout = "pending"
  /\ processingTimeout' = "fired"
  /\ processingFailed' = TRUE
  /\ UNCHANGED <<stopPhase, statusPoll, fetching, polls, downloadUrl>>

\* Line 998: the 2 s interval fired: poll().
StatusPollTimer ==
  /\ statusPoll
  /\ fetching' = fetching + 1
  /\ polls' = polls + 1
  /\ UNCHANGED <<stopPhase, processingTimeout, statusPoll, downloadUrl,
                 processingFailed>>

\* Lines 977-996: a status request ended: with a status that has a fileUrl
\* (set the download URL, clear the interval), or without one, with an error
\* status or with a network error (nothing changes).
StatusFetched(fileUrl) ==
  /\ fetching > 0
  /\ fetching' = fetching - 1
  /\ IF fileUrl # null
       THEN /\ downloadUrl' = fileUrl
            /\ processingFailed' = FALSE
            /\ statusPoll' = FALSE
       ELSE UNCHANGED <<downloadUrl, processingFailed, statusPoll>>
  /\ UNCHANGED <<stopPhase, processingTimeout, polls>>

\* Lines 977-979 and server.js 147-160: the status request answered from the
\* room's manager (ok), or lost to a network error.
StatusRequestEnds(ok) ==
  StatusFetched(IF ok /\ GetStatus # null
                  THEN recordings[GetStatus].fileUrl ELSE null)

\* server.js 431-466: the acknowledgement of the stop handler reaches the
\* recorder when the manager's call returned or threw in this step.
StopHandler ==
  IF result'.op = "stop"
    THEN StopAcknowledged(Acks(result')[1].success, Acks(result')[1].fileUrl)
    ELSE /\ stopPhase' = "awaited"
         /\ UNCHANGED <<processingTimeout, statusPoll, fetching, polls,
                        downloadUrl, processingFailed>>

MaxPolls == 3
MaxFetching == 2

\* A step of the recorder's stop and polling code alone.
Recorder(A) ==
  A /\ UNCHANGED <<mvars, pvars, evars, qvars, wvars, rvars, lvars>>
\* A step of the manager whose stop-recording handler runs for the recorder.
Handler(A) ==
  A /\ StopHandler /\ UNCHANGED <<pvars, evars, qvars, wvars, rvars, lvars>>

NextPoll ==
  \/ Manager(StartFits(1) /\ StartUIRecording)
  \/ Manager(StartRegistered)
  \/ Manager(/\ FrameFits(1, 1)
             /\ \E timestamp \in FrameTimestamps :
                   AddUIFrame(timestamp, "buffer"))
  \/ Manager(\E w \in writes, size \in {0, 1} : FrameWritten(w, size))
  \/ Recorder(RecorderStop)
  \/ Handler(stopPhase = "sent" /\ StopRecording)
  \/ Handler(\E s \in StopIds : StopAfterGrace(s))
  \/ Handler(\E s \in StopIds : StopFilterStep(s))
  \/ Handler(\E s \in StopIds : EncodeFinished(s))
  \/ Handler(\E s \in StopIds : EncodeFailed(s))
  \/ Handler(\E s \in StopIds, made \in BOOLEAN : ThumbnailFinished(s, made))
  \/ Recorder(ProcessingTimedOut)
  \/ Recorder(polls < MaxPolls /\ fetching < MaxFetching /\ StatusPollTimer)
  \/ Recorder(\E ok \in BOOLEAN : StatusRequestEnds(ok))

SpecPoll == InitProducer /\ [][NextPoll]_vars

\* ------------------------------------------------------ the room registry
\* The fields of the manager that mvars holds.
This ==
  [recordings |-> recordings, activeRecording |-> activeRecording,
   frameCounter |-> frameCounter, starts |-> starts, writes |-> writes,
   stops |-> stops, disk |-> disk]

\* mvars holds the fields f in the next state.
Load(f) ==
  /\ recordings' = f.recordings
  /\ activeRecording' = f.activeRecording
  /\ frameCounter' = f.frameCounter
  /\ starts' = f.starts
  /\ writes' = f.writes
  /\ stops' = f.stops
  /\ disk' = f.disk

\* A registry that keeps every manager under one key.
KeyShared(roomId) == 1

\* Lines 65, 70 and 74: the key of the Map is the room id.
Key(roomId) == roomId

\* A registry lookup that never finds a manager.
RegisteredNever(roomId) == FALSE

\* Line 65: roomManagers.has(roomId).
Registered(roomId) == roomManagers[Key(roomId)] # null

\* The fields of every registered manager with those of mvars put back
\* under the key of their manager; a manager that is in the registry no
\* more is not followed further.
PutBack ==
  [r \in RoomIds |->
     IF manager # null /\ roomManagers[r] = manager THEN This ELSE parked[r]]

\* Lines 64-82: getRoomManager(roomId), called by the handler of a message
\* that names roomId: construct and register a manager when the room has
\* none; the handler goes on with the room's manager.
GetRoomManager(roomId) ==
  /\ room' = roomId
  /\ result' = NoResult
  /\ IF ~Registered(roomId)
       THEN /\ created' = created + 1
            /\ manager' = created + 1
            /\ roomManagers' = [roomManagers EXCEPT ![Key(roomId)] = created + 1]
            /\ parked' = PutBack
            /\ Load(ManagerFields)
       ELSE /\ manager' = roomManagers[Key(roomId)]
            /\ UNCHANGED <<created, roomManagers>>
            /\ IF manager = roomManagers[Key(roomId)]
                 THEN UNCHANGED <<parked, recordings, activeRecording,
                                  frameCounter, starts, writes, stops, disk>>
                 ELSE /\ parked' = PutBack
                      /\ Load(PutBack[Key(roomId)])
  /\ UNCHANGED <<isFFmpegAvailable, now>>

\* The fields of the manager registered for room r (those of a manager just
\* constructed when the room has none).
SessionOf(r) ==
  IF roomManagers[Key(r)] = null THEN ManagerFields
  ELSE IF roomManagers[Key(r)] = manager THEN This
  ELSE parked[Key(r)]

\* Lines 1443-1454: getStatus() of a manager with fields f: the recording it
\* reports, or null.
StatusOf(f) ==
  IF f.activeRecording # null THEN f.activeRecording
  ELSE IF Len(f.recordings) > 0 THEN 1
  ELSE null

\* One step of the clock is two hours.
TickHours == 2

\* Lines 86 and 89-90: the test of the sweep on a manager with fields f: no
\* status, or a completedAt more than one hour before now.
Inactive(f) ==
  \/ StatusOf(f) = null
  \/ /\ f.recordings[StatusOf(f)].completedAt # null
     /\ f.recordings[StatusOf(f)].completedAt * TickHours < now * TickHours - 1

\* Lines 1482-1496: cleanup() on a manager with fields f: a recording that is
\* recording or paused is stopped, and the outcome swallowed.
CleanedUp(f) ==
  IF /\ f.activeRecording # null
     /\ f.recordings[f.activeRecording].status \in {"recording", "paused"}
     /\ \E s \in StopIds : f.stops[s].pc = "idle"
    THEN LET slot == CHOOSE s \in StopIds :
                      /\ f.stops[s].pc = "idle"
                      /\ \A t \in StopIds : f.stops[t].pc = "idle" => s <= t
         IN [f EXCEPT !.recordings[f.activeRecording].status = "stopping",
                      !.stops[slot] = [IdleStop EXCEPT
                                         !.pc = "grace", !.op = "cleanup",
                                         !.forRec = f.activeRecording]]
    ELSE f

\* Lines 85-96: cleanupInactiveRooms(): every manager that tests inactive is
\* cleaned up and deleted from the registry.
CleanupInactiveRooms ==
  /\ \E r \in RoomIds : roomManagers[r] # null
  /\ LET swept == {r \in RoomIds :
                     roomManagers[r] # null /\ Inactive(SessionOf(r))}
     IN /\ roomManagers' = [r \in RoomIds |->
                              IF r \in swept THEN null ELSE roomManagers[r]]
        /\ parked' = [r \in RoomIds |->
                        IF r \in swept THEN ManagerFields ELSE PutBack[r]]
        /\ IF manager # null /\ \E r \in swept : roomManagers[r] = manager
             THEN Load(CleanedUp(This))
             ELSE UNCHANGED <<recordings, activeRecording, frameCounter,
                              starts, writes, stops, disk>>
  /\ room' = null
  /\ result' = NoResult
  /\ UNCHANGED <<manager, created, isFFmpegAvailable, now>>

MaxManagers == 3

\* A step of a callback of the manager that mvars holds.
Callback(A) ==
  /\ manager # null
  /\ A
  /\ UNCHANGED <<rvars, pvars, evars, qvars, wvars, cvars, lvars>>
\* A step of the manager that the handler of a message for room got from
\* the registry, or of one of its callbacks.
InRoom(A) == room # null /\ Callback(A)
\* A step of the server outside the managers.
Server(A) == A /\ UNCHANGED <<pvars, evars, qvars, wvars, cvars, lvars>>

\* A step of the manager of the room that gets every kind of message.
InBusyRoom(A) == room = 1 /\ InRoom(A)

\* Two rooms with one recording each: both get start and pause messages,
\* room 1 every kind of message.
NextRooms ==
  \/ Server(\E roomId \in RoomIds : GetRoomManager(roomId))
  \/ InRoom(StartFits(1) /\ StartUIRecording)
  \/ InRoom(StartRegistered)
  \/ InRoom(PauseRecording)
  \/ InBusyRoom(ResumeRecording)
  \/ InBusyRoom(/\ FrameFits(1, 1)
                /\ \E timestamp \in FrameTimestamps :
                      AddUIFrame(timestamp, "buffer"))
  \/ InBusyRoom(\E w \in writes : FrameWritten(w, 1))
  \/ InBusyRoom(/\ AudioFits(0)
                /\ AddAudioChunk(0, 0, 1000, "buffer"))
  \/ InBusyRoom(\E w \in writes : AudioWritten(w))
  \/ InBusyRoom(/\ FrameFits(1, 1)
                /\ AddBulkFrames(0, <<"buffer">>))
  \/ InBusyRoom(\E w \in writes : BulkFrameDone(w, TRUE, 1))
  \/ InBusyRoom(GetRecordingStatus)
  \/ InBusyRoom(StopRecording)
  \/ InBusyRoom(\E s \in StopIds : StopAfterGrace(s))
  \/ InBusyRoom(\E s \in StopIds : StopFilterStep(s))
  \/ InBusyRoom(\E s \in StopIds : EncodeFinished(s))
  \/ InBusyRoom(\E s \in StopIds : EncodeFailed(s))
  \/ InBusyRoom(\E s \in StopIds : ThumbnailFinished(s, TRUE))

\* Both rooms are looked up, the clock advances and the sweep runs; room 1
\* has one session, with frames and stop calls.
NextRegistry ==
  \/ Server(\E roomId \in RoomIds :
              /\ Registered(roomId) \/ created < MaxManagers
              /\ GetRoomManager(roomId))
  \/ Server(CleanupInactiveRooms)
  \/ Server(Tick /\ UNCHANGED rvars)
  \/ InBusyRoom(StartFits(1) /\ StartUIRecording)
  \/ Callback(StartRegistered)
  \/ InBusyRoom(/\ FrameFits(1, 1)
                /\ \E timestamp \in FrameTimestamps :
                      AddUIFrame(timestamp, "buffer"))
  \/ Callback(\E w \in writes : FrameWritten(w, 1))
  \/ InBusyRoom(StopRecording)
  \/ Callback(\E s \in StopIds : StopAfterGrace(s))
  \/ Callback(\E s \in StopIds : StopFilterStep(s))
  \/ Callback(\E s \in StopIds : EncodeFinished(s))
  \/ Callback(\E s \in StopIds : ThumbnailFinished(s, TRUE))

\* Room 1 alone is looked up, with the sessions and stop calls of Spec; the
\* clock advances and the sweep runs.
NextSweep ==
  \/ Server(/\ Registered(1) \/ created < MaxManagers
            /\ GetRoomManager(1))
  \/ Server(CleanupInactiveRooms)
  \/ Server(Tick /\ UNCHANGED rvars)
  \/ InBusyRoom(StartFits(MaxRecordings) /\ StartUIRecording)
  \/ Callback(StartRegistered)
  \/ InBusyRoom(/\ FrameFits(1, 1)
                /\ \E timestamp \in FrameTimestamps :
                      AddUIFrame(timestamp, "buffer"))
  \/ Callback(\E w \in writes : FrameWritten(w, 1))
  \/ InBusyRoom(StopRecording)
  \/ Callback(\E s \in StopIds : StopAfterGrace(s))
  \/ Callback(\E s \in StopIds : StopFilterStep(s))
  \/ Callback(\E s \in StopIds : EncodeFinished(s))
  \/ Callback(\E s \in StopIds : ThumbnailFinished(s, TRUE))

InitRooms == ManagerNew /\ isFFmpegAvailable /\ ProducerIdle /\ EncodeIdle
             /\ QueueNew(0)

SpecRooms == InitRooms /\ [][NextRooms]_vars
SpecRegistry == InitRooms /\ [][NextRegistry]_vars
SpecSweep == InitRooms /\ [][NextSweep]_vars

\* ------------------------------------------------------------ properties
TypeOK ==
  /\ activeRecording \in {null} \cup (1..Len(recordings))
  /\ frameCounter \in Nat
  /\ starts \in 0..MaxStarts


NonTerminalRecordings ==
  {r \in 1..Len(recordings) : recordings[r].status \in NonTerminal}

\* C2: a start request made while the room's current session is recording,
\* paused or stopping is rejected: it throws, no new session is under
\* construction, and the sessions, the active-session pointer and the frame
\* counter are unchanged.
C2_StartRejectedWhenNonTerminal ==
  [][(/\ StartUIRecording
      /\ activeRecording # null
      /\ recordings[activeRecording].status \in NonTerminal)
     => (/\ result'.op = "start"
         /\ ~result'.ok
         /\ starts' = starts
         /\ recordings' = recordings
         /\ activeRecording' = activeRecording
         /\ frameCounter' = frameCounter)]_vars

\* C3: at most one session of the room is recording, paused or stopping.
C3_AtMostOneNonTerminal == Cardinality(NonTerminalRecordings) <= 1

\* C4: pause succeeds only from status recording and resume only from status
\* paused; in every other case the call throws its state error and no
\* session's status, pausedAt or resumedAt changes.
C4_PauseResumeGuard ==
  [][/\ PauseRecording =>
          IF activeRecording # null
             /\ recordings[activeRecording].status = "recording"
            THEN /\ result' = Returned("pause", activeRecording)
                 /\ recordings'[activeRecording].status = "paused"
            ELSE /\ result' = Thrown("pause", ErrCannotPause)
                 /\ recordings' = recordings
     /\ ResumeRecording =>
          IF activeRecording # null
             /\ recordings[activeRecording].status = "paused"
            THEN /\ result' = Returned("resume", activeRecording)
                 /\ recordings'[activeRecording].status = "recording"
            ELSE /\ result' = Thrown("resume", ErrCannotResume)
                 /\ recordings' = recordings]_vars

\* A pause was just rejected on a session that is stopping.
C4_Witness ==
  /\ result = Thrown("pause", ErrCannotPause)
  /\ activeRecording # null
  /\ recordings[activeRecording].status = "stopping"

Encoding(r) == {s \in StopIds : stops[s].pc = "encoding" /\ stops[s].encRec = r}

\* C5: a stop issued while the session is stopping throws the 'already being
\* stopped' error and changes nothing, and at most one encoder invocation
\* runs for one session at any time.
C5_SingleEncodePerSession ==
  /\ \A r \in 1..Len(recordings) : Cardinality(Encoding(r)) <= 1
  /\ (result = Thrown("stop", ErrAlreadyStopping) =>
        /\ activeRecording # null
        /\ recordings[activeRecording].status = "stopping")

\* C6: a stop on a completed session returns that session (its id and artifact
\* URL) without error, starts no stop procedure and changes no session.
C6_StopIdempotentOnCompleted ==
  [][(/\ StopRecording
      /\ activeRecording # null
      /\ recordings[activeRecording].status = "completed")
     => (/\ result' = [op |-> "stop", ok |-> TRUE, rec |-> activeRecording,
                       fileUrl |-> recordings[activeRecording].fileUrl,
                       thumbnailUrl |->
                         recordings[activeRecording].thumbnailUrl,
                       error |-> ""]
         /\ recordings' = recordings
         /\ stops' = stops
         /\ activeRecording' = activeRecording)]_vars

\* A stop returned a session that had been completed at an earlier time, with
\* its artifact URL, while no stop procedure is running.
C6_Witness ==
  /\ result.op = "stop"
  /\ result.ok
  /\ result.rec # null
  /\ recordings[result.rec].status = "completed"
  /\ recordings[result.rec].completedAt < now
  /\ result.fileUrl = FileUrl(result.rec)
  /\ FreeStop = StopIds

HasValidFrame(r) ==
  \E k \in 1..Len(recordings[r].frameFiles) :
     ValidFile(r, recordings[r].frameFiles[k])

NoValidFramesErrors == {ErrNoFramesWritten, ErrNoValidFrames}

\* C7: when the stop issued on a session finishes verifying the frame files
\* and that session has no valid frame file, the encoder is not invoked, the
\* stop throws the no-valid-frames error and the session is failed with that
\* error recorded.
C7_NoValidFramesFailsStop ==
  [][\A s \in StopIds :
       (/\ stops[s].pc \in {"grace", "filter"}
        /\ stops'[s].pc \in {"encoding", "idle"}
        /\ ~HasValidFrame(stops[s].forRec))
       => (/\ stops'[s].pc = "idle"
           /\ recordings'[stops[s].forRec].status = "failed"
           /\ recordings'[stops[s].forRec].error \in NoValidFramesErrors)]_vars

\* The manifest of recording r in sequence order, without the records whose
\* file is missing or empty.
ValidInOrder(r) ==
  LET Valid(f) == ValidFile(r, f)
  IN SelectSeq(SortByFrameNumber(recordings[r].frameFiles), Valid)

\* C8: when the encoder is invoked its input is exactly the manifest records
\* with an existing, non-empty file, in increasing sequence-number order.
C8_EncodeInputIsValidManifest ==
  [][\A s \in StopIds :
       (stops[s].pc = "filter" /\ stops'[s].pc = "encoding")
       => stops'[s].valid = ValidInOrder(stops[s].arr)]_vars


EncSpan == encFrames[Len(encFrames)].timestamp - encFrames[1].timestamp

\* rate = min(round(p / q), 60), by the inequalities that define rounding.
IsCappedRound(rate, p, q) ==
  IF rate = 60
    THEN IF q > 0 THEN 2 * p >= 119 * q ELSE 2 * p <= 119 * q
  ELSE /\ rate < 60
       /\ IF q > 0
            THEN (2 * rate - 1) * q <= 2 * p /\ 2 * p < (2 * rate + 1) * q
            ELSE (2 * rate - 1) * q >= 2 * p /\ 2 * p > (2 * rate + 1) * q

\* C9 as stated: the rate is min(round(frameCount / spanSeconds), 60), and
\* the configured fps when the span is zero or frameCount <= 1.
C9_EncodeRate ==
  encRate # null =>
    IF Len(encFrames) <= 1 \/ EncSpan = 0
      THEN encRate = encFps
      ELSE IsCappedRound(encRate, Len(encFrames) * 1000, EncSpan)

\* C9 amended: the rate is min(round(frameCount / spanSeconds), 60), and the
\* configured fps when the span is zero or negative or frameCount <= 1.
C9_EncodeRateAmended ==
  encRate # null =>
    IF Len(encFrames) <= 1 \/ EncSpan <= 0
      THEN encRate = encFps
      ELSE IsCappedRound(encRate, Len(encFrames) * 1000, EncSpan)

\* 150 frames over 2.0 s were given the capped rate 60.
C9_Witness ==
  /\ encRate = 60
  /\ Len(encFrames) = 150
  /\ EncSpan = 2000

\* A duration line is max(diff / 1000, 1 / rate) written with six decimals.
IsFlooredDuration(line, diff, rate) ==
  /\ DOMAIN line = {"inf", "micros"}
  /\ IF rate = 0 THEN line.inf
     ELSE /\ ~line.inf
          /\ IF diff * rate >= 1000
               THEN line.micros = diff * 1000
               ELSE /\ 2 * (line.micros * rate - 1000000) <= rate
                    /\ 2 * (1000000 - line.micros * rate) <= rate
          /\ 2 * line.micros * rate >= 2 * 1000000 - rate

Muxed == encRate # null /\ encMux.audio

\* C11 as stated: the offset is the lowest-index chunk's timestamp minus the
\* first frame's; every positive offset delays the audio by that offset and
\* trims nothing, every negative offset trims the head of the audio by its
\* absolute value and delays nothing; delay and trim are never both applied.
C11_AudioSync ==
  Muxed =>
    LET offset == AudioOffset(encFrames, encAudio)
    IN /\ offset > 0 => encMux.itsoffset = offset /\ encMux.ss = null
       /\ offset < 0 => encMux.ss = -offset /\ encMux.itsoffset = null
       /\ ~(encMux.itsoffset # null /\ encMux.ss # null)

\* C11 amended: an offset above 50 ms delays the audio by that offset and
\* trims nothing, an offset below -50 ms trims the head of the audio by its
\* absolute value and delays nothing, and an offset within 50 ms of zero
\* does neither; delay and trim are never both applied.
C11_AudioSyncAmended ==
  Muxed =>
    LET offset == AudioOffset(encFrames, encAudio)
        lowest == CHOOSE a \in {encAudio[i] : i \in 1..Len(encAudio)} :
                    \A i \in 1..Len(encAudio) : a.index <= encAudio[i].index
    IN /\ offset = lowest.timestamp - encFrames[1].timestamp
       /\ offset > 50 => encMux.itsoffset = offset /\ encMux.ss = null
       /\ offset < -50 => encMux.ss = -offset /\ encMux.itsoffset = null
       /\ (offset >= -50 /\ offset <= 50) =>
             encMux.itsoffset = null /\ encMux.ss = null
       /\ ~(encMux.itsoffset # null /\ encMux.ss # null)

\* Two chunks that arrived out of index order, the lowest-index one 200 ms
\* before the first frame: the audio is trimmed by 0.2 s and not delayed.
C11_Witness ==
  /\ Muxed
  /\ Len(encAudio) = 2
  /\ encAudio[1].index > encAudio[2].index
  /\ AudioOffset(encFrames, encAudio) = -200
  /\ encMux = [audio |-> TRUE, itsoffset |-> null, ss |-> 200]

\* C12: under any interleaving of concurrently handled frame messages, each
\* session's frame manifest read in append order is strictly increasing in
\* sequence number.
C12_ManifestStrictlyIncreasing ==
  \A r \in 1..Len(recordings) :
    LET ff == recordings[r].frameFiles
    IN \A i, j \in 1..Len(ff) :
         i < j => ff[i].frameNumber < ff[j].frameNumber

\* Frame writes of recording r that were submitted before its stop and are
\* still suspended at fs.writeFile.
InFlightBeforeStop(r) ==
  {w \in writes : w.kind = "frame" /\ w.rec = r /\ w.during = "recording"}

\* C13: stop drains: while a stop call scans the manifest of a session or
\* runs the encoder on it, no frame write of that session submitted before
\* the stop is still in flight.
C13_StopDrainsWrites ==
  \A s \in StopIds :
    /\ stops[s].pc = "filter" => InFlightBeforeStop(stops[s].arr) = {}
    /\ stops[s].pc = "encoding" => InFlightBeforeStop(stops[s].encRec) = {}

\* C14: pausing is not an ingest gate: no frame that arrives while the
\* active session is paused is rejected for the session's status (it is
\* accepted for persistence like a frame arriving in status recording).
C14_PausedFrameNotRejected ==
  [][(/\ activeRecording # null
      /\ recordings[activeRecording].status = "paused")
       => result' # Thrown("frame", ErrCannotAddFrame)]_vars

\* The step delivers the failure of a ui-frame or audio-chunk call.
ChunkFailed ==
  /\ result'.op \in {"frame", "audio"}
  /\ ~result'.ok \/ result'.error # ""

\* Recording r after the step differs from r before it in nothing but its
\* dropped and error counters.
OnlyCounters(r) ==
  recordings'[r] = [recordings[r] EXCEPT
                      !.droppedFrames = recordings'[r].droppedFrames,
                      !.errors = recordings'[r].errors]

\* C15: a failed frame or audio chunk is acknowledged to its caller as
\* {success: false, error} and changes nothing but the dropped and error
\* counters: every session keeps its status and manifest, the active session
\* stays, and frames are accepted afterwards exactly when they were before;
\* likewise every step that counts a dropped frame or an error (a failed
\* frame of a bulk call included) leaves the session's status as it is and
\* its manifest with every record it had.
C15_ChunkFailureNonFatal ==
  [][/\ ChunkFailed =>
          /\ Len(Acks(result')) = 1
          /\ ~Acks(result')[1].success
          /\ Acks(result')[1].error = result'.error
          /\ Len(recordings') = Len(recordings)
          /\ \A r \in 1..Len(recordings) : OnlyCounters(r)
          /\ activeRecording' = activeRecording
          /\ FrameAccepted' = FrameAccepted
     /\ \A r \in 1..Len(recordings) :
          (\/ recordings'[r].droppedFrames # recordings[r].droppedFrames
           \/ recordings'[r].errors # recordings[r].errors)
            => /\ recordings'[r].status = recordings[r].status
               /\ Len(recordings'[r].frameFiles) >= Len(recordings[r].frameFiles)
               /\ SubSeq(recordings'[r].frameFiles, 1,
                         Len(recordings[r].frameFiles)) = recordings[r].frameFiles
               /\ recordings'[r].droppedFrames >= recordings[r].droppedFrames
               /\ recordings'[r].errors >= recordings[r].errors]_vars

\* The write of a second frame failed: the failure was returned and counted,
\* the first frame's record is in the manifest and the session is recording.
C15_Witness ==
  /\ result = FrameFailed(1, ErrWrite)
  /\ Len(recordings) = 1
  /\ recordings[1].status = "recording"
  /\ Len(recordings[1].frameFiles) = 1
  /\ recordings[1].errors = 1
  /\ recordings[1].droppedFrames = 2
  /\ FrameAccepted

\* C16: whenever a stop request's stopRecording returns a recording, the one
\* acknowledgement of the request is a success carrying that recording's
\* id, artifact URL and thumbnail URL.
C16_StopAcknowledgedAsSuccess ==
  (result.op = "stop" /\ result.ok) =>
    Acks(result) = <<[op |-> "stop", success |-> TRUE, rec |-> result.rec,
                      fileUrl |-> result.fileUrl,
                      thumbnailUrl |-> result.thumbnailUrl, error |-> ""]>>

\* The request whose call delivered result res failed.
RequestFailed(res) ==
  \/ ~res.ok
  \/ res.error # ""
  \/ res.op = "status" /\ res.rec = null

\* C17: every request whose handler has run to its end was acknowledged
\* exactly once, and when the operation failed (validation, state, not-found,
\* write or encode error) the acknowledgement is {success: false, error}
\* with the error's message.
C17_ExactlyOneAcknowledgement ==
  result.op \notin {"none", "cleanup"} =>
    /\ Len(Acks(result)) = 1
    /\ Acks(result)[1].op = result.op
    /\ RequestFailed(result) =>
          /\ ~Acks(result)[1].success
          /\ Acks(result)[1].error # ""
          /\ ~result.ok \/ result.error # "" =>
                Acks(result)[1].error = result.error

\* A stop request failed in the encoder and got the one failure
\* acknowledgement with the encoder's error.
C17_Witness ==
  /\ result = Thrown("stop", ErrEncoder)
  /\ Acks(result) = <<Failure("stop", ErrEncoder)>>

\* C18: with the encoder unavailable every start fails outright: no session
\* is under construction, none is registered and the room has no active
\* session.
C18_StartFailsWithoutEncoder ==
  ~isFFmpegAvailable =>
    /\ recordings = <<>>
    /\ starts = 0
    /\ activeRecording = null
    /\ result.op = "start" => ~result.ok

\* A start was refused because the encoder is unavailable.
C18_Witness ==
  /\ ~isFFmpegAvailable
  /\ result = Thrown("start", ErrNoFFmpeg)

\* Frame n is waiting in the capture queue.
Queued(n) == \E i \in 1..Len(frameQueue) : frameQueue[i] = n

\* The send loop has a batch in flight or a reschedule pending.
SendLoopAlive == isProcessing \/ timers > 0

C20_BoundedConcurrency ==
  /\ activeJobs >= 0
  /\ activeJobs <= maxConcurrent
  /\ activeJobs = Cardinality(running)

\* A job threw while the default three slots were taken and entries waited:
\* its slot went to the next entry and three jobs are running again.
C20_Witness ==
  /\ lastJob = "threw"
  /\ maxConcurrent = 3
  /\ activeJobs = 3
  /\ Cardinality(running) = 3

\* C21: the queue starts entries of equal priority in the order they were
\* added, and when it starts an entry no waiting entry has a strictly higher
\* priority.
C21_QueueOrder ==
  [][(started' # started) =>
       LET e == started'[Len(started')]
       IN /\ \A k \in 1..Len(queue') : queue'[k].priority <= e.priority
          /\ \A k \in 1..Len(started) :
                started[k].priority = e.priority => started[k].id < e.id]_vars

\* An entry of priority 1 added after two entries of priority 0 has been
\* started before the second of them, which was started later.
C21_Witness ==
  \E i, j \in 1..Len(started) :
    /\ i < j
    /\ started[i].priority = 1
    /\ started[j].priority = 0
    /\ started[i].id > started[j].id
    /\ \E k \in 1..Len(started) :
          k < i /\ started[k].priority = 0 /\ started[k].id < started[j].id

\* The status changes of the lifecycle: initializing -> recording <-> paused
\* -> stopping -> completed or failed, and failed -> stopping on a retry.
LifecycleEdges ==
  {<<"initializing", "recording">>, <<"recording", "paused">>,
   <<"paused", "recording">>, <<"recording", "stopping">>,
   <<"paused", "stopping">>, <<"stopping", "completed">>,
   <<"stopping", "failed">>, <<"failed", "stopping">>}

\* C26: every change of a session's status is one of the lifecycle's
\* changes; completed is never left, and recording or paused never becomes
\* completed or failed without passing through stopping.
C26_LifecycleStateMachine ==
  [][\A r \in 1..Len(recordings) :
       recordings'[r].status # recordings[r].status =>
         <<recordings[r].status, recordings'[r].status>> \in LifecycleEdges]_vars

\* C27: a completed session has its artifact URL and completedAt set, and
\* the stop that returns a session returns a completed one with that
\* session's artifact URL.
C27_CompletedHasArtifact ==
  /\ \A r \in 1..Len(recordings) :
        recordings[r].status = "completed" =>
          /\ recordings[r].fileUrl # null
          /\ recordings[r].completedAt # null
  /\ (result.op = "stop" /\ result.ok /\ result.rec # null) =>
        /\ recordings[result.rec].status = "completed"
        /\ result.fileUrl # null
        /\ result.fileUrl = recordings[result.rec].fileUrl

\* C25: when the encode step of a stop fails, the session being stopped is
\* failed with a non-empty error, a stop call gets that error thrown, and the
\* session stays in place with its manifests and counts, so that it is the
\* session a status query reports.
C25_EncodeFailureMarksFailed ==
  [][\A s \in StopIds :
       (stops[s].pc = "encoding" /\ stops'[s].pc = "idle")
       => LET r == stops[s].forRec
          IN /\ recordings'[r].status = "failed"
             /\ recordings'[r].error # ""
             /\ (stops[s].op = "stop" =>
                   result' = Thrown("stop", recordings'[r].error))
             /\ recordings'[r].frameFiles = recordings[r].frameFiles
             /\ recordings'[r].audioFiles = recordings[r].audioFiles
             /\ recordings'[r].framesWritten = recordings[r].framesWritten
             /\ GetStatus' = r]_vars

\* C28: a stop call on a failed session is accepted: nothing is thrown, the
\* session becomes stopping with its manifests as they were, and a stop
\* procedure is started for it.
C28_RetryAfterFailure ==
  [][(/\ StopRecording
      /\ activeRecording # null
      /\ recordings[activeRecording].status = "failed")
     => LET r == activeRecording
        IN /\ result' = NoResult
           /\ activeRecording' = r
           /\ recordings' = [recordings EXCEPT ![r].status = "stopping"]
           /\ \E s \in StopIds :
                 /\ stops[s].pc = "idle"
                 /\ stops'[s].pc = "grace"
                 /\ stops'[s].forRec = r]_vars

\* A session that had failed with the encoder's error was stopped again and
\* the retry completed it with an artifact.
C28_Witness ==
  \E r \in 1..Len(recordings) :
    /\ recordings[r].status = "completed"
    /\ recordings[r].error = ErrEncoder
    /\ recordings[r].fileUrl # null
    /\ result.op = "stop" /\ result.ok /\ result.rec = r

\* C29: waitForCompletion always returns; it returns when a test of its loop
\* finds no entry waiting and no job active, and otherwise when it has made
\* 30 attempts, with entries waiting or jobs active; it never makes more.
C29_BoundedDrainWait ==
  /\ (waiting = "polling") ~> (waiting = "returned")
  /\ [](attempts <= maxAttempts)
  /\ [][(waiting # "returned" /\ waiting' = "returned")
         => \/ queue = <<>> /\ activeJobs = 0
            \/ attempts' = maxAttempts]_vars
  /\ [][(waiting = "polling" /\ attempts' # attempts)
         => (waiting' = "returned"
               <=> \/ queue = <<>> /\ activeJobs = 0
                   \/ attempts' = maxAttempts)]_vars

\* The wait returned after its 30 attempts while a job was still active and
\* an entry was still waiting.
C29_Witness ==
  /\ waiting = "returned"
  /\ attempts = maxAttempts
  /\ activeJobs > 0
  /\ queue # <<>>

\* C30: the status polling stops once a status with an artifact URL has been
\* received, and once the 2 minute timer of the stop has fired the polling
\* that is going on sends no further status request.
C30_StatusPollingTerminates ==
  /\ [](downloadUrl # null => ~statusPoll)
  /\ [][(processingTimeout = "fired" /\ statusPoll) => polls' = polls]_vars

\* C24: a step that handles a message naming one room leaves the fields of
\* every other room's manager unchanged: its sessions with their status,
\* manifests and statistics, its active recording and its frame counter.
C24_RoomIsolation ==
  [][\A r \in RoomIds : r # room' => SessionOf(r)' = SessionOf(r)]_vars

\* A stop for room 1 returned its completed session while the session of
\* room 2 is paused.
C24_Witness ==
  /\ room = 1
  /\ result.op = "stop" /\ result.ok /\ result.rec # null
  /\ SessionOf(1).recordings[result.rec].status = "completed"
  /\ Len(SessionOf(2).recordings) = 1
  /\ SessionOf(2).recordings[1].status = "paused"

\* The manager of room r has no session to report.
NoSession(r) == StatusOf(SessionOf(r)) = null

\* The session that the manager of room r reports is completed, and was
\* completed more than one hour before now.
CompletedLongAgo(r) ==
  LET f == SessionOf(r)
  IN /\ StatusOf(f) # null
     /\ f.recordings[StatusOf(f)].status = "completed"
     /\ f.recordings[StatusOf(f)].completedAt # null
     /\ f.recordings[StatusOf(f)].completedAt * TickHours + 1 < now * TickHours

\* C23: a sweep removes the manager of a room exactly when the manager has
\* no session or its session was completed more than one hour ago; so the
\* manager of a recording, paused, stopping or lately completed session
\* stays.
C23_ReaperSafety ==
  [][CleanupInactiveRooms =>
       \A r \in RoomIds :
         roomManagers[r] # null =>
           (roomManagers'[r] = null <=> (NoSession(r) \/ CompletedLongAgo(r)))]_vars

\* C22: a getRoomManager call for a room that has a manager returns that
\* manager and constructs none; for a room that has none it constructs one
\* and registers it; the registry changes in no other step than these and
\* the sweep, and no manager is registered for two rooms.
C22_SessionRegistry ==
  /\ [][\A roomId \in RoomIds :
          GetRoomManager(roomId) =>
            IF roomManagers[roomId] # null
              THEN /\ manager' = roomManagers[roomId]
                   /\ roomManagers' = roomManagers
                   /\ created' = created
              ELSE /\ manager' = created'
                   /\ created' = created + 1
                   /\ roomManagers' =
                        [roomManagers EXCEPT ![roomId] = manager']]_vars
  /\ [][roomManagers' # roomManagers =>
          \/ CleanupInactiveRooms
          \/ \E roomId \in RoomIds :
                roomManagers[roomId] = null /\ GetRoomManager(roomId)]_vars
  /\ [](\A r, q \in RoomIds :
          (roomManagers[r] # null /\ roomManagers[r] = roomManagers[q])
            => r = q)

\* The handler of a frame for room 1 got the manager that holds the room's
\* recording, again, while room 2 has a manager of its own; a sweep removed
\* a manager before, so that three were constructed.
C22_Witness ==
  /\ room = 1
  /\ manager = roomManagers[1]
  /\ roomManagers[2] # null
  /\ roomManagers[2] # manager
  /\ created > MaxRooms
  /\ Len(recordings) > 0
  /\ result.op = "frame"

Capturing == isRecordingRef /\ ~isPausedRef /\ connected

\* C32: while the recorder is paused no capture is started; the capture
\* loop is scheduled for as long as the recording is active and stops being
\* scheduled only when it is not; so after a resume further captures are
\* started and their frames are enqueued.
C32_PauseKeepsCaptureLoop ==
  /\ [][isPausedRef => blobs' <= blobs]_vars
  /\ [](isRecordingRef => animationFrame)
  /\ [][(animationFrame /\ ~animationFrame') => ~isRecordingRef']_vars
  /\ \A n \in 0..(CapFrames - 1) :
        (Capturing /\ frameNumber + blobs = n)
          ~> (~Capturing \/ frameNumber + blobs > n)
  /\ \A n \in 0..(CapFrames - 1) :
        (isRecordingRef /\ blobs > 0 /\ frameNumber = n)
          ~> (~isRecordingRef \/ frameNumber > n)

\* The recorder is paused after it enqueued a frame; the capture loop is
\* scheduled and no capture is under way.
C32_Witness ==
  /\ isRecordingRef /\ isPausedRef
  /\ animationFrame
  /\ frameNumber > 0 /\ frameNumber < CapFrames
  /\ blobs = 0

\* C36: the frames of one recording are emitted on the channel in the order
\* in which they were enqueued (the order of their frame numbers), across
\* batches and within a batch.
C36_FramesEmittedInCaptureOrder ==
  \A i, j \in 1..Len(emitted) :
    (i < j /\ emitted[i].rec = emitted[j].rec)
      => emitted[i].frame < emitted[j].frame

\* C40: at most one batch of the send loop is in flight, a send loop call
\* made while a batch is in flight removes nothing from the capture queue,
\* and no batch holds more than 10 frames.
C40_SingleFlightSendLoop ==
  /\ [](Len(batches) <= 1)
  /\ [](\A b \in 1..Len(batches) : Cardinality(batches[b].pending) <= SendBatch)
  /\ [][batches # <<>> => Len(batches') <= Len(batches)]_vars

\* C34: a frame or audio message that carries recording id X is written
\* into recording X and into no other recording.
C34_FramesRoutedByRecordingId ==
  /\ [][\A recordingId \in 1..MaxRecordings, timestamp \in FrameTimestamps :
          UIFrameMessage(recordingId, timestamp, "buffer")
            => \A w \in writes' \ writes : w.rec = recordingId]_vars
  /\ [][\A recordingId \in 0..MaxRecordings :
          AddAudioChunk(recordingId, 0, 1000, "buffer")
            => \A w \in writes' \ writes : w.rec = recordingId]_vars

\* C35: no two records of the manifest of one recording have the same
\* sequence number.
C35_UniqueSequenceNumbers ==
  \A r \in 1..Len(recordings) :
    \A i, j \in 1..Len(recordings[r].frameFiles) :
      i # j => recordings[r].frameFiles[i].frameNumber
                 # recordings[r].frameFiles[j].frameNumber

\* C37: when no frame call of a recording is in flight, its framesReceived
\* is the sum of its framesWritten and its droppedFrames.
C37_FrameAccounting ==
  \A r \in 1..Len(recordings) :
    (\A w \in writes : w.rec # r)
      => recordings[r].framesReceived
           = recordings[r].framesWritten + recordings[r].droppedFrames

\* C38: the rate that encodeFramesToVideo builds the concat list with is an
\* integer from 1 to 60, and no duration line of the list is infinite or
\* zero.
C38_EncodeRatePositive ==
  encRate # null =>
    /\ encRate \in 1..60
    /\ \A k \in 1..Len(encLines) :
         "micros" \in DOMAIN encLines[k]
           => ~encLines[k].inf /\ encLines[k].micros > 0

\* Job id waits in the queue.
JobWaits(id) == \E k \in 1..Len(queue) : queue[k].id = id

\* C39: the queue never rests with an entry waiting, a free slot and no
\* dispatcher loop running; every job that waits is started (or removed by
\* clear()), and every job started is finished.
C39_QueueProgress ==
  /\ []((queue # <<>> /\ activeJobs < maxConcurrent) => (queueBusy /\ delaying))
  /\ \A id \in 1..MaxJobs : JobWaits(id) ~> ~JobWaits(id)
  /\ \A id \in 1..MaxJobs : (id \in running) ~> (id \notin running)
  /\ [][\A id \in 1..MaxJobs :
          (JobWaits(id) /\ ~JobWaits(id)')
            => (queue' = <<>> /\ Len(started') = Len(started))
                 \/ \E k \in 1..Len(started') : started'[k].id = id]_vars

\* Every job added was started and has finished, the last ones after they
\* had waited for a slot.
C39_Witness ==
  /\ nextJob > MaxJobs
  /\ Len(started) = MaxJobs
  /\ queue = <<>>
  /\ running = {}
  /\ activeJobs = 0

\* Recording r is in the given status.
InStatus(r, statuses) ==
  /\ r <= Len(recordings)
  /\ recordings[r].status \in statuses

\* C33: every session that enters stopping reaches completed or failed, and
\* the stop that ends leaves the session it put into stopping completed or
\* failed.
C33_StoppingTerminates ==
  /\ \A r \in 1..MaxRecordings :
        InStatus(r, {"stopping"}) ~> InStatus(r, {"completed", "failed"})
  /\ [][\A s \in StopIds :
          (stops[s].pc # "idle" /\ stops'[s].pc = "idle")
            => recordings'[stops[s].forRec].status
                 \in {"completed", "failed"}]_vars

====
